---- MODULE Spec2Model ----
(***************************************************************************)
(* A model of the datastar Rust SDK: the DatastarEvent wire encoder        *)
(* (src/src/lib.rs), the event builders PatchElements                      *)
(* (src/src/patch_elements.rs), PatchSignals (src/src/patch_signals.rs)    *)
(* and ExecuteScript (src/src/execute_script.rs), and the signal           *)
(* extractors of the axum and warp bindings (src/src/axum.rs,              *)
(* src/src/warp.rs).                                                       *)
(*                                                                         *)
(* A Rust String is a sequence of one-character strings, so that           *)
(* splitting, prefixing and concatenation are computed character by        *)
(* character.  Option<T> is a sequence of length 0 (None) or 1 (Some).     *)
(* A core::time::Duration is a record [secs, nanos].                       *)
(***************************************************************************)
EXTENDS Integers, Sequences, FiniteSets, TLC

VARIABLES
    pc,        \* position of the driving program: "start", "build", "converted",
               \* "encoded", "received"
    builder,   \* Option<builder>: the descriptor being built
    desc,      \* Option<builder>: the descriptor the event was converted from (history)
    event,     \* Option<DatastarEvent>: the converted event
    out,       \* Option<String>: the text written by Display
    lastId,    \* Option<String>: argument of the last id(..) call (history)
    req,       \* Option<Request>: the inbound request
    res,       \* for each extractor entry point, Option of what it returned on req
    reply,     \* Option: a rejection and the reply handle_rejection made of it
    sse,       \* for each transport, Option of what its adapter did with event
    stream,    \* Option: the SSE stream of a test-suite handler
    hot        \* live reload: the static ONCE (false at start), the connections
               \* in the order of their swaps (history), and each connection

vars == <<pc, builder, desc, event, out, lastId, req, res, reply, sse, stream, hot>>

-----------------------------------------------------------------------------
(* Bounds of the model                                                     *)

\* longest caller-supplied string (markup, signals, selector, data line)
MaxLen == 2
\* longest data list of a directly constructed DatastarEvent
MaxData == 2

-----------------------------------------------------------------------------
(* Strings, Option, Duration                                               *)

LF == "\n"
CR == "\r"

None == <<>>
Some(x) == <<x>>
IsSome(o) == o # <<>>
Unwrap(o) == o[1]

\* The characters caller-supplied strings are made of.
Chars == {"a", LF, CR}

RECURSIVE StrUpTo(_)
StrUpTo(n) ==
    IF n = 0 THEN {<<>>}
    ELSE LET shorter == StrUpTo(n - 1)
         IN  shorter \cup {Append(s, c) : s \in {t \in shorter : Len(t) = n - 1}, c \in Chars}

RECURSIVE SeqUpTo(_, _)
SeqUpTo(S, n) ==
    IF n = 0 THEN {<<>>}
    ELSE LET shorter == SeqUpTo(S, n - 1)
         IN  shorter \cup {Append(s, x) : s \in {t \in shorter : Len(t) = n - 1}, x \in S}

\* core::time::Duration::from_millis
from_millis(ms) == [secs |-> ms \div 1000, nanos |-> (ms % 1000) * 1000000]

\* core::time::Duration::as_millis: whole milliseconds, the rest dropped
as_millis_rounded_up(d) == d.secs * 1000 + (d.nanos + 999999) \div 1000000
as_millis(d) == d.secs * 1000 + d.nanos \div 1000000

DigitChar(d) == <<"0", "1", "2", "3", "4", "5", "6", "7", "8", "9">>[d + 1]

\* Display of an unsigned integer ({millis}): its decimal digits
RECURSIVE ToDecimal(_)
ToDecimal(n) ==
    IF n < 10 THEN <<DigitChar(n)>>
    ELSE ToDecimal(n \div 10) \o <<DigitChar(n % 10)>>

\* Display of a bool ({})
BoolStr(b) == IF b THEN <<"t","r","u","e">> ELSE <<"f","a","l","s","e">>

\* str::split_inclusive('\n'): the pieces, each ending with its "\n" except
\* possibly the last one; the empty string has no piece.
RECURSIVE split_inclusive(_)
split_inclusive(s) ==
    IF s = <<>> THEN <<>>
    ELSE IF \E i \in 1..Len(s) : s[i] = LF
         THEN LET i == CHOOSE k \in 1..Len(s) :
                           s[k] = LF /\ \A j \in 1..(k - 1) : s[j] # LF
              IN  <<SubSeq(s, 1, i)>> \o split_inclusive(SubSeq(s, i + 1, Len(s)))
         ELSE <<s>>

\* What str::lines does to one piece: drop the final "\n" and then, only if
\* there was one, a final "\r".
LinesMap(line) ==
    IF line # <<>> /\ line[Len(line)] = LF
    THEN LET l1 == SubSeq(line, 1, Len(line) - 1)
         IN  IF l1 # <<>> /\ l1[Len(l1)] = CR
             THEN SubSeq(l1, 1, Len(l1) - 1)
             ELSE l1
    ELSE line

\* str::lines
lines(s) == LET p == split_inclusive(s) IN [i \in 1..Len(p) |-> LinesMap(p[i])]

\* #[derive(Clone)]: every field cloned into a new value
Clone_clone(self) == [field \in DOMAIN self |-> self[field]]

-----------------------------------------------------------------------------
(* consts.rs                                                               *)

DEFAULT_SSE_RETRY_DURATION == 1000
DEFAULT_ELEMENTS_USE_VIEW_TRANSITIONS == FALSE
DEFAULT_PATCH_SIGNALS_ONLY_IF_MISSING == FALSE

SELECTOR_DATALINE_LITERAL == <<"s","e","l","e","c","t","o","r">>
MODE_DATALINE_LITERAL == <<"m","o","d","e">>
USE_VIEW_TRANSITION_DATALINE_LITERAL ==
    <<"u","s","e","V","i","e","w","T","r","a","n","s","i","t","i","o","n">>
ELEMENTS_DATALINE_LITERAL == <<"e","l","e","m","e","n","t","s">>
SIGNALS_DATALINE_LITERAL == <<"s","i","g","n","a","l","s">>
ONLY_IF_MISSING_DATALINE_LITERAL ==
    <<"o","n","l","y","I","f","M","i","s","s","i","n","g">>

EventType == {"PatchElements", "PatchSignals"}

EventType_as_str(e) ==
    IF e = "PatchElements"
    THEN <<"d","a","t","a","s","t","a","r","-","p","a","t","c","h","-",
           "e","l","e","m","e","n","t","s">>
    ELSE <<"d","a","t","a","s","t","a","r","-","p","a","t","c","h","-",
           "s","i","g","n","a","l","s">>

ElementPatchMode ==
    {"Outer", "Inner", "Remove", "Replace", "Prepend", "Append", "Before", "After"}

ElementPatchMode_default == "Outer"

ElementPatchMode_as_str(m) ==
    CASE m = "Outer"   -> <<"o","u","t","e","r">>
      [] m = "Inner"   -> <<"i","n","n","e","r">>
      [] m = "Remove"  -> <<"r","e","m","o","v","e">>
      [] m = "Replace" -> <<"r","e","p","l","a","c","e">>
      [] m = "Prepend" -> <<"p","r","e","p","e","n","d">>
      [] m = "Append"  -> <<"a","p","p","e","n","d">>
      [] m = "Before"  -> <<"b","e","f","o","r","e">>
      [] m = "After"   -> <<"a","f","t","e","r">>

-----------------------------------------------------------------------------
(* lib.rs: DatastarEvent and its Display                                   *)

\* write!(f, "event: {}", self.event.as_str())
fmt_event(self) == <<"e","v","e","n","t",":"," ">> \o EventType_as_str(self.event)

\* if let Some(id) = &self.id { write!(f, "\nid: {id}") }
fmt_id(self) ==
    IF IsSome(self.id)
    THEN <<LF, "i","d",":"," ">> \o Unwrap(self.id)
    ELSE <<>>

\* let millis = self.retry.as_millis();
\* if millis != DEFAULT_SSE_RETRY_DURATION { write!(f, "\nretry: {millis}") }
fmt_retry_exact(self) ==
    IF self.retry # from_millis(DEFAULT_SSE_RETRY_DURATION)
    THEN <<LF, "r","e","t","r","y",":"," ">> \o ToDecimal(as_millis(self.retry))
    ELSE <<>>
fmt_retry(self) ==
    LET millis == as_millis(self.retry)
    IN  IF millis # DEFAULT_SSE_RETRY_DURATION
        THEN <<LF, "r","e","t","r","y",":"," ">> \o ToDecimal(millis)
        ELSE <<>>

\* for line in &self.data { write!(f, "\ndata: {line}") }
RECURSIVE fmt_data_from(_, _)
fmt_data_from(data, k) ==
    IF k > Len(data) THEN <<>>
    ELSE <<LF, "d","a","t","a",":"," ">> \o data[k] \o fmt_data_from(data, k + 1)
fmt_data_reversed(self) ==
    fmt_data_from([i \in 1..Len(self.data) |-> self.data[Len(self.data) + 1 - i]], 1)
fmt_data(self) == fmt_data_from(self.data, 1)

\* write!(f, "\n\n")
fmt_end_one_newline == <<LF>>
fmt_end == <<LF, LF>>

\* impl Display for DatastarEvent: fmt
fmt(self) ==
    fmt_event(self) \o fmt_id(self) \o fmt_retry(self) \o fmt_data(self) \o fmt_end

-----------------------------------------------------------------------------
(* patch_elements.rs: PatchElements                                        *)

\* format!("{} {}", literal, value)
DataLine(literal, value) == literal \o <<" ">> \o value

\* PatchElements::new
PatchElements_new(elements) ==
    [type                |-> "PatchElements",
     id                  |-> None,
     retry               |-> from_millis(DEFAULT_SSE_RETRY_DURATION),
     elements            |-> Some(elements),
     selector            |-> None,
     mode                |-> ElementPatchMode_default,
     use_view_transition |-> DEFAULT_ELEMENTS_USE_VIEW_TRANSITIONS]

\* PatchElements::new_remove
PatchElements_new_remove_default_mode(selector) ==
    [type                |-> "PatchElements",
     id                  |-> None,
     retry               |-> from_millis(DEFAULT_SSE_RETRY_DURATION),
     elements            |-> None,
     selector            |-> Some(selector),
     mode                |-> ElementPatchMode_default,
     use_view_transition |-> DEFAULT_ELEMENTS_USE_VIEW_TRANSITIONS]
PatchElements_new_remove(selector) ==
    [type                |-> "PatchElements",
     id                  |-> None,
     retry               |-> from_millis(DEFAULT_SSE_RETRY_DURATION),
     elements            |-> None,
     selector            |-> Some(selector),
     mode                |-> "Remove",
     use_view_transition |-> DEFAULT_ELEMENTS_USE_VIEW_TRANSITIONS]

\* PatchElements::id
PatchElements_id(self, id) == [self EXCEPT !.id = Some(id)]

\* PatchElements::retry
PatchElements_retry(self, retry) == [self EXCEPT !.retry = retry]

\* PatchElements::selector
PatchElements_selector(self, selector) == [self EXCEPT !.selector = Some(selector)]

\* PatchElements::mode
PatchElements_mode(self, mode) == [self EXCEPT !.mode = mode]

\* PatchElements::use_view_transition
PatchElements_use_view_transition(self, use_view_transition) ==
    [self EXCEPT !.use_view_transition = use_view_transition]

\* if let Some(selector) = &self.selector { data.push("selector <selector>") }
PatchElements_selector_lines_skip_empty(self) ==
    IF IsSome(self.selector) /\ Unwrap(self.selector) # <<>>
    THEN <<DataLine(SELECTOR_DATALINE_LITERAL, Unwrap(self.selector))>>
    ELSE <<>>
PatchElements_selector_lines(self) ==
    IF IsSome(self.selector)
    THEN <<DataLine(SELECTOR_DATALINE_LITERAL, Unwrap(self.selector))>>
    ELSE <<>>

\* if self.mode != ElementPatchMode::default() { data.push("mode <mode>") }
PatchElements_mode_lines_always(self) ==
    <<DataLine(MODE_DATALINE_LITERAL, ElementPatchMode_as_str(self.mode))>>
PatchElements_mode_lines(self) ==
    IF self.mode # ElementPatchMode_default
    THEN <<DataLine(MODE_DATALINE_LITERAL, ElementPatchMode_as_str(self.mode))>>
    ELSE <<>>

\* if self.use_view_transition != DEFAULT { data.push("useViewTransition <bool>") }
PatchElements_use_view_transition_lines(self) ==
    IF self.use_view_transition # DEFAULT_ELEMENTS_USE_VIEW_TRANSITIONS
    THEN <<DataLine(USE_VIEW_TRANSITION_DATALINE_LITERAL, BoolStr(self.use_view_transition))>>
    ELSE <<>>

\* if let Some(ref elements) = self.elements {
\*     for line in elements.lines() { data.push("elements <line>") } }
PatchElements_elements_lines_one_for_empty(self) ==
    IF IsSome(self.elements)
    THEN LET ls == IF Unwrap(self.elements) = <<>> THEN << <<>> >>
                   ELSE lines(Unwrap(self.elements))
         IN  [i \in 1..Len(ls) |-> DataLine(ELEMENTS_DATALINE_LITERAL, ls[i])]
    ELSE <<>>
PatchElements_elements_lines(self) ==
    IF IsSome(self.elements)
    THEN LET ls == lines(Unwrap(self.elements))
         IN  [i \in 1..Len(ls) |-> DataLine(ELEMENTS_DATALINE_LITERAL, ls[i])]
    ELSE <<>>

\* PatchElements::convert_to_datastar_event_inner
PatchElements_convert_to_datastar_event_inner(self, id) ==
    [event |-> "PatchElements",
     id    |-> id,
     retry |-> self.retry,
     data  |-> PatchElements_selector_lines(self)
               \o PatchElements_mode_lines(self)
               \o PatchElements_use_view_transition_lines(self)
               \o PatchElements_elements_lines(self)]

\* PatchElements::into_datastar_event: let id = self.id.take(); ...
PatchElements_into_datastar_event_id_after_take(self) ==
    LET taken == [self EXCEPT !.id = None]
    IN  PatchElements_convert_to_datastar_event_inner(taken, taken.id)
PatchElements_into_datastar_event(self) ==
    LET id    == self.id
        taken == [self EXCEPT !.id = None]
    IN  PatchElements_convert_to_datastar_event_inner(taken, id)

\* PatchElements::as_datastar_event
PatchElements_as_datastar_event_without_id(self) ==
    PatchElements_convert_to_datastar_event_inner(self, None)
PatchElements_as_datastar_event(self) ==
    PatchElements_convert_to_datastar_event_inner(self, self.id)

-----------------------------------------------------------------------------
(* patch_signals.rs: PatchSignals                                          *)

\* PatchSignals::new
PatchSignals_new(signals) ==
    [type            |-> "PatchSignals",
     id              |-> None,
     retry           |-> from_millis(DEFAULT_SSE_RETRY_DURATION),
     signals         |-> signals,
     only_if_missing |-> DEFAULT_PATCH_SIGNALS_ONLY_IF_MISSING]

\* PatchSignals::id
PatchSignals_id(self, id) == [self EXCEPT !.id = Some(id)]

\* PatchSignals::retry
PatchSignals_retry(self, retry) == [self EXCEPT !.retry = retry]

\* PatchSignals::only_if_missing
PatchSignals_only_if_missing(self, only_if_missing) ==
    [self EXCEPT !.only_if_missing = only_if_missing]

\* if self.only_if_missing != DEFAULT { data.push("onlyIfMissing <bool>") }
PatchSignals_only_if_missing_lines(self) ==
    IF self.only_if_missing # DEFAULT_PATCH_SIGNALS_ONLY_IF_MISSING
    THEN <<DataLine(ONLY_IF_MISSING_DATALINE_LITERAL, BoolStr(self.only_if_missing))>>
    ELSE <<>>

\* for line in self.signals.lines() { data.push("signals <line>") }
PatchSignals_signals_lines(self) ==
    LET ls == lines(self.signals)
    IN  [i \in 1..Len(ls) |-> DataLine(SIGNALS_DATALINE_LITERAL, ls[i])]

\* the data list of PatchSignals::convert_to_datastar_event_inner
PatchSignals_data_flag_last(self) ==
    PatchSignals_signals_lines(self) \o PatchSignals_only_if_missing_lines(self)
PatchSignals_data(self) ==
    PatchSignals_only_if_missing_lines(self) \o PatchSignals_signals_lines(self)

\* PatchSignals::convert_to_datastar_event_inner
PatchSignals_convert_to_datastar_event_inner(self, id) ==
    [event |-> "PatchSignals",
     id    |-> id,
     retry |-> self.retry,
     data  |-> PatchSignals_data(self)]

\* PatchSignals::into_datastar_event: let id = self.id.take(); ...
PatchSignals_into_datastar_event(self) ==
    LET id    == self.id
        taken == [self EXCEPT !.id = None]
    IN  PatchSignals_convert_to_datastar_event_inner(taken, id)

\* PatchSignals::as_datastar_event
PatchSignals_as_datastar_event(self) ==
    PatchSignals_convert_to_datastar_event_inner(self, self.id)

-----------------------------------------------------------------------------
(* execute_script.rs: ExecuteScript                                        *)

\* ExecuteScript::new
ExecuteScript_new(script) ==
    [type        |-> "ExecuteScript",
     id          |-> None,
     retry       |-> from_millis(DEFAULT_SSE_RETRY_DURATION),
     script      |-> script,
     auto_remove |-> None,
     attributes  |-> <<>>]

\* ExecuteScript::id
ExecuteScript_id(self, id) == [self EXCEPT !.id = Some(id)]

\* ExecuteScript::retry
ExecuteScript_retry(self, retry) == [self EXCEPT !.retry = retry]

\* ExecuteScript::auto_remove
ExecuteScript_auto_remove(self, auto_remove) ==
    [self EXCEPT !.auto_remove = Some(auto_remove)]

\* ExecuteScript::attributes
ExecuteScript_attributes(self, attributes) == [self EXCEPT !.attributes = attributes]

\* Option::unwrap_or
unwrap_or(o, default) == IF IsSome(o) THEN Unwrap(o) ELSE default

\* the text " body" after the selector literal
BodySelector == <<"b", "o", "d", "y">>

\* data.push("selector body"); data.push("mode append")
ExecuteScript_head_lines_mode_first ==
    <<DataLine(MODE_DATALINE_LITERAL, ElementPatchMode_as_str("Append")),
      DataLine(SELECTOR_DATALINE_LITERAL, BodySelector)>>
ExecuteScript_head_lines ==
    <<DataLine(SELECTOR_DATALINE_LITERAL, BodySelector),
      DataLine(MODE_DATALINE_LITERAL, ElementPatchMode_as_str("Append"))>>

\* the text ` data-effect="el.remove()"`
AutoRemoveAttr == <<" ", "d", "a", "t", "a", "-", "e", "f", "f", "e", "c", "t", "=", "\"", "e", "l", ".", "r", "e", "m", "o", "v", "e", "(", ")", "\"">>

\* if self.auto_remove.unwrap_or(true) { s.push_str(" data-effect=\"el.remove()\"") }
ExecuteScript_auto_remove_attr_default_off(self) ==
    IF unwrap_or(self.auto_remove, FALSE) THEN AutoRemoveAttr ELSE <<>>
ExecuteScript_auto_remove_attr_always(self) ==
    AutoRemoveAttr
ExecuteScript_auto_remove_attr(self) ==
    IF unwrap_or(self.auto_remove, TRUE) THEN AutoRemoveAttr ELSE <<>>

\* for attribute in &self.attributes { s.push(' '); s.push_str(attribute) }
RECURSIVE ExecuteScript_attributes_from(_, _)
ExecuteScript_attributes_from(attributes, k) ==
    IF k > Len(attributes) THEN <<>>
    ELSE <<" ">> \o attributes[k] \o ExecuteScript_attributes_from(attributes, k + 1)

\* let mut s = "elements <script"; ...; s.push('>')
ExecuteScript_open_tag(self) ==
    DataLine(ELEMENTS_DATALINE_LITERAL, <<"<", "s", "c", "r", "i", "p", "t">>)
        \o ExecuteScript_auto_remove_attr(self)
        \o ExecuteScript_attributes_from(self.attributes, 1)
        \o <<">">>

\* s.push_str(scripts_lines.next().unwrap_or_default()); data.push(s);
\* for line in scripts_lines { data.push("elements <line>") }
ExecuteScript_script_lines_split_on_newline(self) ==
    LET whole == lines(self.script)
        ls    == IF self.script # <<>> /\ self.script[Len(self.script)] = LF
                 THEN Append(whole, <<>>)
                 ELSE whole
        first == IF ls = <<>> THEN <<>> ELSE ls[1]
    IN  <<ExecuteScript_open_tag(self) \o first>>
        \o [i \in 1..(Len(ls) - 1) |-> DataLine(ELEMENTS_DATALINE_LITERAL, ls[i + 1])]
ExecuteScript_script_lines(self) ==
    LET ls    == lines(self.script)
        first == IF ls = <<>> THEN <<>> ELSE ls[1]
    IN  <<ExecuteScript_open_tag(self) \o first>>
        \o [i \in 1..(Len(ls) - 1) |-> DataLine(ELEMENTS_DATALINE_LITERAL, ls[i + 1])]

\* the text "</script>"
CloseTag == <<"<", "/", "s", "c", "r", "i", "p", "t", ">">>

\* data.last_mut().unwrap().push_str("</script>")
ExecuteScript_close_on_new_line(data) == Append(data, CloseTag)
ExecuteScript_close(data) == [data EXCEPT ![Len(data)] = @ \o CloseTag]

\* ExecuteScript::convert_to_datastar_event_inner
ExecuteScript_convert_to_datastar_event_inner(self, id) ==
    [event |-> "PatchElements",
     id    |-> id,
     retry |-> self.retry,
     data  |-> ExecuteScript_close(ExecuteScript_head_lines
                                   \o ExecuteScript_script_lines(self))]

\* ExecuteScript::into_datastar_event: let id = self.id.take(); ...
ExecuteScript_into_datastar_event(self) ==
    LET id    == self.id
        taken == [self EXCEPT !.id = None]
    IN  ExecuteScript_convert_to_datastar_event_inner(taken, id)

\* ExecuteScript::as_datastar_event
ExecuteScript_as_datastar_event(self) ==
    ExecuteScript_convert_to_datastar_event_inner(self, self.id)

-----------------------------------------------------------------------------
(* axum.rs and warp.rs: reading signals from a request                     *)

\* Result<T, E>
Ok(x) == [ok |-> TRUE, val |-> x]
Err(e) == [ok |-> FALSE, val |-> e]

\* the header whose presence marks a Datastar request
DATASTAR_REQ_HEADER_STR == "datastar-request"

\* http::StatusCode
BAD_REQUEST == 400
INTERNAL_SERVER_ERROR == 500

\* the entry points of the two bindings
Entries ==
    {"axum::FromRequest", "axum::OptionalFromRequest",
     "warp::read_signals", "warp::read_signals_optional"}

\* HeaderMap::get over a set of <<name, value>> pairs
headers_get(headers, name) ==
    IF \E h \in headers : h[1] = name
    THEN Some((CHOOSE h \in headers : h[1] = name)[2])
    ELSE None

\* str::split(c)
RECURSIVE SplitOn(_, _)
SplitOn(s, c) ==
    IF \E i \in 1..Len(s) : s[i] = c
    THEN LET i == CHOOSE k \in 1..Len(s) : s[k] = c /\ \A j \in 1..(k - 1) : s[j] # c
         IN  <<SubSeq(s, 1, i - 1)>> \o SplitOn(SubSeq(s, i + 1, Len(s)), c)
    ELSE <<s>>

\* form_urlencoded::parse: the name=value pairs between '&', empty pairs
\* skipped, each split at its first '=' (the inputs hold no '%' and no '+')
query_pairs(query) ==
    LET segs == SelectSeq(SplitOn(query, "&"), LAMBDA g : g # <<>>)
        pair(g) == IF \E i \in 1..Len(g) : g[i] = "="
                   THEN LET i == CHOOSE k \in 1..Len(g) :
                                     g[k] = "=" /\ \A j \in 1..(k - 1) : g[j] # "="
                        IN  <<SubSeq(g, 1, i - 1), SubSeq(g, i + 1, Len(g))>>
                   ELSE <<g, <<>>>>
    IN  [k \in 1..Len(segs) |-> pair(segs[k])]

\* serde_json::Value::String
Value_String(text) == [t |-> "String", v |-> text]

\* serde_json::Value::as_str
Value_as_str(value) == IF value.t = "String" THEN Some(value.v) ELSE None

\* the field name of struct DatastarParam { datastar: serde_json::Value }
DatastarField == <<"d", "a", "t", "a", "s", "t", "a", "r">>

\* serde_urlencoded::from_str::<DatastarParam>: the one pair named
\* datastar, its text taken as a Value::String; other names are ignored
serde_urlencoded_from_str(query) ==
    LET pairs == query_pairs(query)
        idx   == {k \in 1..Len(pairs) : pairs[k][1] = DatastarField}
    IN  IF idx = {} THEN Err("missing field")
        ELSE IF Cardinality(idx) > 1 THEN Err("duplicate field")
        ELSE Ok([datastar |-> Value_String(pairs[CHOOSE k \in idx : TRUE][2])])

Digits == {"0", "1", "2", "3", "4", "5", "6", "7", "8", "9"}
DigitValue(c) == CHOOSE n \in 0..9 : DigitChar(n) = c

\* a JSON number without sign, fraction or exponent
IsJsonNumber(s) ==
    /\ s # <<>>
    /\ \A i \in 1..Len(s) : s[i] \in Digits
    /\ Len(s) > 1 => s[1] # "0"

RECURSIVE JsonNumber(_)
JsonNumber(s) ==
    IF s = <<>> THEN 0
    ELSE JsonNumber(SubSeq(s, 1, Len(s) - 1)) * 10 + DigitValue(s[Len(s)])

\* a JSON string without escapes
IsJsonString(s) ==
    /\ Len(s) >= 2
    /\ s[1] = "\"" /\ s[Len(s)] = "\""
    /\ \A i \in 2..(Len(s) - 1) : s[i] \notin {"\"", "\\"}

IsJsonScalar(s) == IsJsonNumber(s) \/ IsJsonString(s)

JsonScalar(s) ==
    IF IsJsonNumber(s) THEN [t |-> "Number", v |-> JsonNumber(s)]
    ELSE [t |-> "String", v |-> SubSeq(s, 2, Len(s) - 1)]

\* the index that closes the string opened at s[1], or 0
ClosingQuote(s) ==
    IF \E k \in 2..Len(s) : s[k] = "\""
    THEN CHOOSE k \in 2..Len(s) : s[k] = "\"" /\ \A j \in 2..(k - 1) : s[j] # "\""
    ELSE 0

\* a JSON object with no member or one member whose value is a scalar
IsJsonObject(s) ==
    /\ Len(s) >= 2
    /\ s[1] = "{" /\ s[Len(s)] = "}"
    /\ LET inner == SubSeq(s, 2, Len(s) - 1)
           q     == ClosingQuote(inner)
       IN  \/ inner = <<>>
           \/ /\ inner[1] = "\""
              /\ q > 0
              /\ IsJsonString(SubSeq(inner, 1, q))
              /\ Len(inner) > q + 1
              /\ inner[q + 1] = ":"
              /\ IsJsonScalar(SubSeq(inner, q + 2, Len(inner)))

\* the members of a JSON object, a set of <<name, value>>
JsonMembers(s) ==
    LET inner == SubSeq(s, 2, Len(s) - 1)
        q     == ClosingQuote(inner)
    IN  IF inner = <<>> THEN {}
        ELSE {<<SubSeq(inner, 2, q - 1), JsonScalar(SubSeq(inner, q + 2, Len(inner)))>>}

\* the field name of the target type struct Signals { delay: u64 }
DelayField == <<"d", "e", "l", "a", "y">>

\* serde_json::from_str::<Signals> / from_slice::<Signals>: a syntax error
\* for a text that is no JSON document, a data error for a document that
\* is not an object with a numeric member delay
serde_json_from_str(text) ==
    IF IsJsonObject(text)
    THEN LET ms == {m \in JsonMembers(text) : m[1] = DelayField}
         IN  IF ms = {} THEN Err("data")
             ELSE LET m == CHOOSE x \in ms : TRUE
                  IN  IF m[2].t = "Number" THEN Ok([delay |-> m[2].v]) ELSE Err("data")
    ELSE IF IsJsonScalar(text) THEN Err("data")
    ELSE Err("syntax")

\* axum: Query::<DatastarParam>::from_request
Query_from_request(r) ==
    LET q == serde_urlencoded_from_str(IF IsSome(r.query) THEN Unwrap(r.query) ELSE <<>>)
    IN  IF q.ok THEN q ELSE Err([rejection |-> "FailedToDeserializeQueryString"])

\* axum: IntoResponse for QueryRejection
QueryRejection_into_response(rejection) ==
    [status |-> BAD_REQUEST, body |-> "Failed to deserialize query string"]

\* axum: Json::<T>::from_request: the Content-Type must be JSON, then the
\* body is parsed
Json_from_request(r) ==
    IF headers_get(r.headers, "content-type") # Some("application/json")
    THEN Err([rejection |-> "MissingJsonContentType", status |-> 415])
    ELSE LET j == serde_json_from_str(r.body)
         IN  IF j.ok THEN j
             ELSE IF j.val = "data"
             THEN Err([rejection |-> "JsonDataError", status |-> 422])
             ELSE Err([rejection |-> "JsonSyntaxError", status |-> 400])

\* axum: <ReadSignals<T> as FromRequest>::from_request
axum_from_request(r) ==
    IF r.method = "GET"
    THEN LET query == Query_from_request(r)
         IN  IF ~query.ok THEN Err(QueryRejection_into_response(query.val))
             ELSE LET signals == Value_as_str(query.val.datastar)
                  IN  IF signals = None
                      THEN Err([status |-> BAD_REQUEST, body |-> "Failed to parse JSON str"])
                      ELSE LET json == serde_json_from_str(Unwrap(signals))
                           IN  IF json.ok THEN Ok(json.val)
                               ELSE Err([status |-> BAD_REQUEST,
                                         body   |-> "Failed to parse JSON value from query"])
    ELSE LET json == Json_from_request(r)
         IN  IF json.ok THEN Ok(json.val)
             ELSE Err([status |-> BAD_REQUEST,
                       body   |-> "Failed to parse JSON value from payload"])

\* axum: <ReadSignals<T> as OptionalFromRequest>::from_request
axum_optional_from_request_extract_first(r) ==
    LET x == axum_from_request(r)
    IN  IF ~x.ok THEN x
        ELSE IF headers_get(r.headers, DATASTAR_REQ_HEADER_STR) = None THEN Ok(None)
        ELSE Ok(Some(x.val))
axum_optional_from_request(r) ==
    IF headers_get(r.headers, DATASTAR_REQ_HEADER_STR) = None
    THEN Ok(None)
    ELSE LET x == axum_from_request(r)
         IN  IF x.ok THEN Ok(Some(x.val)) ELSE x

\* warp: ReadSignalsError, a custom rejection
ReadSignalsError(message, err, status) ==
    [rejection |-> "ReadSignalsError", message |-> <<message, err>>, status |-> status]

\* warp: extract_signals
extract_signals_head_as_get(method, query, body) ==
    IF method \in {"GET", "HEAD"}
    THEN LET params == serde_urlencoded_from_str(query)
         IN  IF ~params.ok
             THEN Err(ReadSignalsError("Failed to parse query: ", params.val, BAD_REQUEST))
             ELSE LET signals_str == Value_as_str(params.val.datastar)
                  IN  IF signals_str = None
                      THEN Err(ReadSignalsError("datastar parameter must be a JSON string",
                                                "", BAD_REQUEST))
                      ELSE LET signals == serde_json_from_str(Unwrap(signals_str))
                           IN  IF signals.ok THEN Ok(signals.val)
                               ELSE Err(ReadSignalsError("Failed to parse JSON: ",
                                                         signals.val, BAD_REQUEST))
    ELSE LET signals == serde_json_from_str(body)
         IN  IF signals.ok THEN Ok(signals.val)
             ELSE Err(ReadSignalsError("Failed to parse JSON body: ", signals.val, BAD_REQUEST))
extract_signals(method, query, body) ==
    IF method = "GET"
    THEN LET params == serde_urlencoded_from_str(query)
         IN  IF ~params.ok
             THEN Err(ReadSignalsError("Failed to parse query: ", params.val, BAD_REQUEST))
             ELSE LET signals_str == Value_as_str(params.val.datastar)
                  IN  IF signals_str = None
                      THEN Err(ReadSignalsError("datastar parameter must be a JSON string",
                                                "", BAD_REQUEST))
                      ELSE LET signals == serde_json_from_str(Unwrap(signals_str))
                           IN  IF signals.ok THEN Ok(signals.val)
                               ELSE Err(ReadSignalsError("Failed to parse JSON: ",
                                                         signals.val, BAD_REQUEST))
    ELSE LET signals == serde_json_from_str(body)
         IN  IF signals.ok THEN Ok(signals.val)
             ELSE Err(ReadSignalsError("Failed to parse JSON body: ", signals.val, BAD_REQUEST))

\* warp: read_signals: the method, the raw query or "" when there is none,
\* and the body bytes, handed to extract_signals
read_signals_header_checked(r) ==
    IF headers_get(r.headers, DATASTAR_REQ_HEADER_STR) = None
    THEN Ok(None)
    ELSE extract_signals(r.method, IF IsSome(r.query) THEN Unwrap(r.query) ELSE <<>>, r.body)
read_signals(r) ==
    extract_signals(r.method, IF IsSome(r.query) THEN Unwrap(r.query) ELSE <<>>, r.body)

\* warp: read_signals_optional: header::optional(..), and
\* read_signals().map(Some).or(any().map(|| None)).unify(), mapped to the
\* signals when the header is there
read_signals_optional(r) ==
    LET is_datastar == headers_get(r.headers, DATASTAR_REQ_HEADER_STR)
        extracted   == read_signals(r)
        signals     == IF extracted.ok THEN Some(extracted.val) ELSE None
    IN  Ok(IF IsSome(is_datastar) THEN signals ELSE None)

\* warp: handle_rejection
handle_rejection_always_500(err) ==
    [status |-> INTERNAL_SERVER_ERROR, body |-> <<"Internal Server Error", "">>]
handle_rejection(err) ==
    IF err.rejection = "ReadSignalsError"
    THEN [status |-> err.status, body |-> err.message]
    ELSE [status |-> INTERNAL_SERVER_ERROR, body |-> <<"Internal Server Error", "">>]

-----------------------------------------------------------------------------
(* axum.rs, warp.rs, rocket.rs: a DatastarEvent turned into an SSE Event   *)

\* the transports with an adapter
Transports == {"axum", "warp", "rocket"}

\* a call that returned v, a call that panicked
Returned(v) == [panicked |-> FALSE, val |-> v]
Panicked(message) == [panicked |-> TRUE, val |-> message]

\* self.data.iter().map(|s| s.len()).sum::<usize>()
RECURSIVE sum_len_from(_, _)
sum_len_from(data, k) ==
    IF k > Len(data) THEN 0 ELSE Len(data[k]) + sum_len_from(data, k + 1)

\* (sum + self.data.len()).saturating_sub(1)
saturating_capacity(self) ==
    LET n == sum_len_from(self.data, 1) + Len(self.data)
    IN  IF n >= 1 THEN n - 1 ELSE 0

\* String::with_capacity(sum + self.data.len() - 1) on usize: when the
\* subtraction goes below zero, a build with overflow checks panics at the
\* subtraction, and a build without them wraps to usize::MAX, a capacity
\* above isize::MAX at which String::with_capacity panics
with_capacity_unchecked_sub(self, overflow_checks) ==
    LET n == sum_len_from(self.data, 1) + Len(self.data)
    IN  IF n >= 1 THEN Returned(n - 1)
        ELSE IF overflow_checks THEN Panicked("attempt to subtract with overflow")
        ELSE Panicked("capacity overflow")

\* let mut sep = ""; for line in self.data.iter() {
\*     write!(&mut data, "{sep}{line}"); sep = "\n" }
RECURSIVE write_lines_from(_, _, _)
write_lines_from(data, k, sep) ==
    IF k > Len(data) THEN <<>>
    ELSE sep \o data[k] \o write_lines_from(data, k + 1, <<LF>>)
write_lines(data) == write_lines_from(data, 1, <<>>)

\* DatastarEvent::write_as_axum_sse_event
write_as_axum_sse_event(self) ==
    Returned([event    |-> Some(EventType_as_str(self.event)),
              retry    |-> IF as_millis(self.retry) # DEFAULT_SSE_RETRY_DURATION
                           THEN Some(self.retry) ELSE None,
              id       |-> self.id,
              capacity |-> saturating_capacity(self),
              data     |-> write_lines(self.data)])

\* DatastarEvent::write_as_warp_sse_event
write_as_warp_sse_event(self) ==
    Returned([event    |-> Some(EventType_as_str(self.event)),
              retry    |-> IF as_millis(self.retry) # DEFAULT_SSE_RETRY_DURATION
                           THEN Some(self.retry) ELSE None,
              id       |-> self.id,
              capacity |-> saturating_capacity(self),
              data     |-> write_lines(self.data)])

\* DatastarEvent::write_as_rocket_sse_event
write_as_rocket_sse_event(self, overflow_checks) ==
    LET capacity == with_capacity_unchecked_sub(self, overflow_checks)
    IN  IF capacity.panicked THEN capacity
        ELSE Returned([event    |-> Some(EventType_as_str(self.event)),
                       retry    |-> Some(self.retry),
                       id       |-> self.id,
                       capacity |-> capacity.val,
                       data     |-> write_lines(self.data)])

-----------------------------------------------------------------------------
(* examples/axum-test-suite.rs, examples/warp-test-suite.rs: the handlers  *)
(* that answer a test case with one SSE event per event of the test case   *)

\* str::trim_matches('"'): every '"' at the start and at the end is dropped
RECURSIVE trim_matches_quote(_)
trim_matches_quote(text) ==
    IF text # <<>> /\ Head(text) = "\""
    THEN trim_matches_quote(Tail(text))
    ELSE IF text # <<>> /\ text[Len(text)] = "\""
    THEN trim_matches_quote(SubSeq(text, 1, Len(text) - 1))
    ELSE text

\* format!("{key}=\"{}\"", value.to_string().trim_matches('"')), the
\* to_string of a Value::String being the text between two '"'
format_attribute(pair) ==
    pair[1] \o <<"=", "\"">>
        \o trim_matches_quote(<<"\"">> \o pair[2].v \o <<"\"">>)
        \o <<"\"">>

\* attributes.map(|attributes| attributes.into_iter().map(..).collect())
\*     .unwrap_or_default()
test_attributes(attributes) ==
    IF IsSome(attributes)
    THEN [k \in 1..Len(Unwrap(attributes)) |-> format_attribute(Unwrap(attributes)[k])]
    ELSE <<>>

\* serde_json::to_string of an IndexMap<String, Value> of strings
RECURSIVE serde_json_members_from(_, _, _)
serde_json_members_from(map, k, sep) ==
    IF k > Len(map) THEN <<>>
    ELSE sep \o <<"\"">> \o map[k][1] \o <<"\"", ":">>
             \o <<"\"">> \o map[k][2].v \o <<"\"">>
             \o serde_json_members_from(map, k + 1, <<",">>)

serde_json_to_string(map) == <<"{">> \o serde_json_members_from(map, 1, <<>>) \o <<"}">>

\* signals_raw.unwrap_or_else(|| signals.map(|s| serde_json::to_string(&s)
\*     .unwrap_or_default()).unwrap_or_default())
test_signals(signals, signals_raw) ==
    IF IsSome(signals_raw) THEN Unwrap(signals_raw)
    ELSE IF IsSome(signals) THEN serde_json_to_string(Unwrap(signals))
    ELSE <<>>

\* match mode.as_deref().unwrap_or_default() { "outer" => Outer, ..,
\*     _ => Outer }
test_mode(mode) ==
    LET name == unwrap_or(mode, <<>>)
    IN  CASE name = <<"o","u","t","e","r">>         -> "Outer"
          [] name = <<"i","n","n","e","r">>         -> "Inner"
          [] name = <<"r","e","m","o","v","e">>     -> "Remove"
          [] name = <<"r","e","p","l","a","c","e">> -> "Replace"
          [] name = <<"p","r","e","p","e","n","d">> -> "Prepend"
          [] name = <<"a","p","p","e","n","d">>     -> "Append"
          [] name = <<"b","e","f","o","r","e">>     -> "Before"
          [] name = <<"a","f","t","e","r">>         -> "After"
          [] OTHER                                  -> "Outer"

\* the match on the TestCaseEvent: the descriptor of each arm, converted;
\* retry: Duration::from_millis(retry_duration.unwrap_or(DEFAULT_SSE_RETRY_DURATION))
test_datastar_event(test_event) ==
    CASE test_event.type = "executeScript" ->
             ExecuteScript_into_datastar_event(
                 [type        |-> "ExecuteScript",
                  script      |-> test_event.script,
                  id          |-> test_event.event_id,
                  retry       |-> from_millis(unwrap_or(test_event.retry_duration,
                                                         DEFAULT_SSE_RETRY_DURATION)),
                  auto_remove |-> test_event.auto_remove,
                  attributes  |-> test_attributes(test_event.attributes)])
      [] test_event.type = "patchElements" ->
             PatchElements_into_datastar_event(
                 [type                |-> "PatchElements",
                  id                  |-> test_event.event_id,
                  retry               |-> from_millis(unwrap_or(test_event.retry_duration,
                                                         DEFAULT_SSE_RETRY_DURATION)),
                  elements            |-> test_event.elements,
                  selector            |-> test_event.selector,
                  mode                |-> test_mode(test_event.mode),
                  use_view_transition |-> unwrap_or(test_event.use_view_transition, FALSE)])
      [] test_event.type = "patchSignals" ->
             PatchSignals_into_datastar_event(
                 [type            |-> "PatchSignals",
                  id              |-> test_event.event_id,
                  retry           |-> from_millis(unwrap_or(test_event.retry_duration,
                                                         DEFAULT_SSE_RETRY_DURATION)),
                  signals         |-> test_signals(test_event.signals, test_event.signals_raw),
                  only_if_missing |-> unwrap_or(test_event.only_if_missing, FALSE)])

\* for event in test_case.events: the event of the k-th iteration
for_event_last_first(events, k) == events[Len(events) + 1 - k]
for_event(events, k) == events[k]

-----------------------------------------------------------------------------
(* examples/axum-live-reload.rs: the handler of /hotreload                 *)

\* AtomicBool::swap(val, SeqCst): stores val and returns the value before,
\* in one atomic step
AtomicBool_swap_without_store(flag, val) == [old |-> flag, new |-> flag]
AtomicBool_swap(flag, val) == [old |-> flag, new |-> val]

\* "window.location.reload()"
ReloadScript == <<"w", "i", "n", "d", "o", "w", ".", "l", "o", "c", "a", "t", "i", "o", "n", ".", "r", "e", "l", "o", "a", "d", "(", ")">>

\* let script = ExecuteScript::new("window.location.reload()");
\* let sse_event = script.write_as_axum_sse_event();
\* (axum.rs:59-61: self.as_datastar_event().write_as_axum_sse_event())
hotreload_sse_event ==
    write_as_axum_sse_event(
        ExecuteScript_as_datastar_event(ExecuteScript_new(ReloadScript))).val

\* <core::future::Pending as Future>::poll: always Poll::Pending
Pending_poll == "Pending"

\* the most connections of one process, the most polls of a waiting stream
MaxConnections == 3
MaxPolls == 1

\* the /hotreload connections of the process
Connections == 1..MaxConnections

-----------------------------------------------------------------------------
(* Inputs                                                                  *)

\* Durations given to a builder's retry(..): the default, the default plus
\* half a millisecond, and one millisecond more than the default.
RetryArgs == {[secs |-> 1, nanos |-> n] : n \in {0, 500000, 1000000}}

\* the markup "a\nb\nc"
MarkupABC == <<"a", LF, "b", LF, "c">>

\* Markup given to PatchElements::new
Markups == StrUpTo(MaxLen) \cup {MarkupABC}

\* Selectors given to new_remove(..) and selector(..)
Selectors == StrUpTo(1)

\* the signals {"a":1}
SignalsA1 == <<"{", "\"", "a", "\"", ":", "1", "}">>

\* Signals given to PatchSignals::new
SignalsArgs == StrUpTo(MaxLen) \cup {SignalsA1}

\* the two-line script "a\nb"
ScriptAB == <<"a", LF, "b">>

\* Scripts given to ExecuteScript::new
Scripts == StrUpTo(MaxLen) \cup {ScriptAB}

\* the attribute type="module"
TypeModule == <<"t", "y", "p", "e", "=", "\"", "m", "o", "d", "u", "l", "e", "\"">>

\* Attribute lists given to attributes(..)
AttributeLists == {<<>>, <<TypeModule>>, <<TypeModule, <<"a">>>>, << <<"a">>, TypeModule>>}

\* HTTP methods of the requests
Methods == {"GET", "POST", "HEAD", "DELETE"}

\* Header sets of the requests
HeaderSets ==
    SUBSET {<<DATASTAR_REQ_HEADER_STR, "true">>, <<"content-type", "application/json">>}

Q_other == <<"x", "=", "1">>
Q_delay1 == <<"d", "a", "t", "a", "s", "t", "a", "r", "=", "{", "\"", "d", "e", "l", "a", "y", "\"", ":", "1", "}">>
Q_open == <<"d", "a", "t", "a", "s", "t", "a", "r", "=", "{">>
Q_string == <<"d", "a", "t", "a", "s", "t", "a", "r", "=", "\"", "a", "\"">>
Q_twice == <<"d", "a", "t", "a", "s", "t", "a", "r", "=", "1", "&", "d", "a", "t", "a", "s", "t", "a", "r", "=", "1">>
Q_second == <<"x", "=", "1", "&", "d", "a", "t", "a", "s", "t", "a", "r", "=", "{", "\"", "d", "e", "l", "a", "y", "\"", ":", "1", "}">>

\* Query strings of the requests; None is a URI without a query
Queries == {None} \cup {Some(q) : q \in {Q_other, Q_delay1, Q_open, Q_string, Q_twice, Q_second}}

B_delay2 == <<"{", "\"", "d", "e", "l", "a", "y", "\"", ":", "2", "}">>
B_delayString == <<"{", "\"", "d", "e", "l", "a", "y", "\"", ":", "\"", "a", "\"", "}">>
B_open == <<"{", "\"", "d", "e", "l", "a", "y", "\"", ":">>
B_number == <<"2">>

\* Bodies of the requests
Bodies == {<<>>, B_delay2, B_delayString, B_open, B_number}

Requests ==
    [method : Methods, headers : HeaderSets, query : Queries, body : Bodies]

\* a rejection of another filter of the route, as handle_rejection may be given
NotFound == [rejection |-> "NotFound"]

\* Durations given to retry(..) or set on the public field: around the
\* default of 1000 ms, with and without a part below one millisecond.
Durations ==
    {[secs |-> s, nanos |-> n] : s \in {0, 1}, n \in {0, 500000, 1000000}}

\* Ids given to id(..)
Ids == {<<"a">>, <<"b">>}

\* Data lines and events of a directly constructed DatastarEvent
DataLines == StrUpTo(1)
Events ==
    [event : EventType,
     id    : {None} \cup {Some(i) : i \in Ids \cup {<<"a", LF>>}},
     retry : Durations,
     data  : SeqUpTo(DataLines, MaxData)]

-----------------------------------------------------------------------------
(* The encoder alone: a DatastarEvent built through its public fields      *)

InitDisplay ==
    /\ pc = "converted"
    /\ builder = None
    /\ desc = None
    /\ event \in {Some(e) : e \in Events}
    /\ out = None
    /\ lastId = None
    /\ req = None
    /\ res = [e \in Entries |-> None]
    /\ reply = None
    /\ sse = [t \in Transports |-> None]
    /\ stream = None
    /\ hot = [ONCE  |-> FALSE,
              order |-> <<>>,
              conn  |-> [c \in Connections |->
                            [at |-> "idle", written |-> <<>>, polls |-> 0]]]

\* format!("{event}") / event.to_string()
Display ==
    /\ pc = "converted"
    /\ IsSome(event)
    /\ out' = Some(fmt(Unwrap(event)))
    /\ pc' = "encoded"
    /\ UNCHANGED <<builder, desc, event, lastId, req, res, reply, sse, stream, hot>>

NextDisplay == Display

SpecDisplay == InitDisplay /\ [][NextDisplay]_vars

-----------------------------------------------------------------------------
(* A PatchElements built, converted and encoded                            *)

\* no builder yet
InitBuild ==
    /\ pc = "start"
    /\ builder = None
    /\ desc = None
    /\ event = None
    /\ out = None
    /\ lastId = None
    /\ req = None
    /\ res = [e \in Entries |-> None]
    /\ reply = None
    /\ sse = [t \in Transports |-> None]
    /\ stream = None
    /\ hot = [ONCE  |-> FALSE,
              order |-> <<>>,
              conn  |-> [c \in Connections |->
                            [at |-> "idle", written |-> <<>>, polls |-> 0]]]

Building(type) == pc = "build" /\ IsSome(builder) /\ Unwrap(builder).type = type

NewPE ==
    /\ pc = "start"
    /\ \E elements \in Markups : builder' = Some(PatchElements_new(elements))
    /\ pc' = "build"
    /\ UNCHANGED <<desc, event, out, lastId, req, res, reply, sse, stream, hot>>

NewRemovePE ==
    /\ pc = "start"
    /\ \E selector \in Selectors : builder' = Some(PatchElements_new_remove(selector))
    /\ pc' = "build"
    /\ UNCHANGED <<desc, event, out, lastId, req, res, reply, sse, stream, hot>>

IdPE ==
    /\ Building("PatchElements")
    /\ \E id \in Ids :
          /\ builder' = Some(PatchElements_id(Unwrap(builder), id))
          /\ lastId' = Some(id)
    /\ UNCHANGED <<pc, desc, event, out, req, res, reply, sse, stream, hot>>

RetryPE ==
    /\ Building("PatchElements")
    /\ \E retry \in RetryArgs : builder' = Some(PatchElements_retry(Unwrap(builder), retry))
    /\ UNCHANGED <<pc, desc, event, out, lastId, req, res, reply, sse, stream, hot>>

SelectorPE ==
    /\ Building("PatchElements")
    /\ \E selector \in Selectors :
          builder' = Some(PatchElements_selector(Unwrap(builder), selector))
    /\ UNCHANGED <<pc, desc, event, out, lastId, req, res, reply, sse, stream, hot>>

ModePE ==
    /\ Building("PatchElements")
    /\ \E mode \in ElementPatchMode : builder' = Some(PatchElements_mode(Unwrap(builder), mode))
    /\ UNCHANGED <<pc, desc, event, out, lastId, req, res, reply, sse, stream, hot>>

UseViewTransitionPE ==
    /\ Building("PatchElements")
    /\ \E b \in BOOLEAN :
          builder' = Some(PatchElements_use_view_transition(Unwrap(builder), b))
    /\ UNCHANGED <<pc, desc, event, out, lastId, req, res, reply, sse, stream, hot>>

\* into_datastar_event consumes the builder
IntoDatastarEventPE ==
    /\ Building("PatchElements")
    /\ event' = Some(PatchElements_into_datastar_event(Unwrap(builder)))
    /\ desc' = builder
    /\ builder' = None
    /\ pc' = "converted"
    /\ UNCHANGED <<out, lastId, req, res, reply, sse, stream, hot>>

\* as_datastar_event borrows it
AsDatastarEventPE ==
    /\ Building("PatchElements")
    /\ event' = Some(PatchElements_as_datastar_event(Unwrap(builder)))
    /\ desc' = builder
    /\ pc' = "converted"
    /\ UNCHANGED <<builder, out, lastId, req, res, reply, sse, stream, hot>>

NextPE ==
    \/ NewPE
    \/ NewRemovePE
    \/ IdPE
    \/ RetryPE
    \/ SelectorPE
    \/ ModePE
    \/ UseViewTransitionPE
    \/ IntoDatastarEventPE
    \/ AsDatastarEventPE
    \/ Display

SpecPE == InitBuild /\ [][NextPE]_vars

-----------------------------------------------------------------------------
(* A PatchSignals built, converted and encoded                             *)

NewPS ==
    /\ pc = "start"
    /\ \E signals \in SignalsArgs : builder' = Some(PatchSignals_new(signals))
    /\ pc' = "build"
    /\ UNCHANGED <<desc, event, out, lastId, req, res, reply, sse, stream, hot>>

IdPS ==
    /\ Building("PatchSignals")
    /\ \E id \in Ids :
          /\ builder' = Some(PatchSignals_id(Unwrap(builder), id))
          /\ lastId' = Some(id)
    /\ UNCHANGED <<pc, desc, event, out, req, res, reply, sse, stream, hot>>

RetryPS ==
    /\ Building("PatchSignals")
    /\ \E retry \in RetryArgs : builder' = Some(PatchSignals_retry(Unwrap(builder), retry))
    /\ UNCHANGED <<pc, desc, event, out, lastId, req, res, reply, sse, stream, hot>>

OnlyIfMissingPS ==
    /\ Building("PatchSignals")
    /\ \E b \in BOOLEAN : builder' = Some(PatchSignals_only_if_missing(Unwrap(builder), b))
    /\ UNCHANGED <<pc, desc, event, out, lastId, req, res, reply, sse, stream, hot>>

IntoDatastarEventPS ==
    /\ Building("PatchSignals")
    /\ event' = Some(PatchSignals_into_datastar_event(Unwrap(builder)))
    /\ desc' = builder
    /\ builder' = None
    /\ pc' = "converted"
    /\ UNCHANGED <<out, lastId, req, res, reply, sse, stream, hot>>

AsDatastarEventPS ==
    /\ Building("PatchSignals")
    /\ event' = Some(PatchSignals_as_datastar_event(Unwrap(builder)))
    /\ desc' = builder
    /\ pc' = "converted"
    /\ UNCHANGED <<builder, out, lastId, req, res, reply, sse, stream, hot>>

NextPS ==
    \/ NewPS
    \/ IdPS
    \/ RetryPS
    \/ OnlyIfMissingPS
    \/ IntoDatastarEventPS
    \/ AsDatastarEventPS
    \/ Display

SpecPS == InitBuild /\ [][NextPS]_vars

-----------------------------------------------------------------------------
(* An ExecuteScript built, converted and encoded                           *)

NewES ==
    /\ pc = "start"
    /\ \E script \in Scripts : builder' = Some(ExecuteScript_new(script))
    /\ pc' = "build"
    /\ UNCHANGED <<desc, event, out, lastId, req, res, reply, sse, stream, hot>>

IdES ==
    /\ Building("ExecuteScript")
    /\ \E id \in Ids :
          /\ builder' = Some(ExecuteScript_id(Unwrap(builder), id))
          /\ lastId' = Some(id)
    /\ UNCHANGED <<pc, desc, event, out, req, res, reply, sse, stream, hot>>

RetryES ==
    /\ Building("ExecuteScript")
    /\ \E retry \in RetryArgs : builder' = Some(ExecuteScript_retry(Unwrap(builder), retry))
    /\ UNCHANGED <<pc, desc, event, out, lastId, req, res, reply, sse, stream, hot>>

AutoRemoveES ==
    /\ Building("ExecuteScript")
    /\ \E b \in BOOLEAN : builder' = Some(ExecuteScript_auto_remove(Unwrap(builder), b))
    /\ UNCHANGED <<pc, desc, event, out, lastId, req, res, reply, sse, stream, hot>>

AttributesES ==
    /\ Building("ExecuteScript")
    /\ \E attributes \in AttributeLists :
          builder' = Some(ExecuteScript_attributes(Unwrap(builder), attributes))
    /\ UNCHANGED <<pc, desc, event, out, lastId, req, res, reply, sse, stream, hot>>

IntoDatastarEventES ==
    /\ Building("ExecuteScript")
    /\ event' = Some(ExecuteScript_into_datastar_event(Unwrap(builder)))
    /\ desc' = builder
    /\ builder' = None
    /\ pc' = "converted"
    /\ UNCHANGED <<out, lastId, req, res, reply, sse, stream, hot>>

AsDatastarEventES ==
    /\ Building("ExecuteScript")
    /\ event' = Some(ExecuteScript_as_datastar_event(Unwrap(builder)))
    /\ desc' = builder
    /\ pc' = "converted"
    /\ UNCHANGED <<builder, out, lastId, req, res, reply, sse, stream, hot>>

NextES ==
    \/ NewES
    \/ IdES
    \/ RetryES
    \/ AutoRemoveES
    \/ AttributesES
    \/ IntoDatastarEventES
    \/ AsDatastarEventES
    \/ Display

SpecES == InitBuild /\ [][NextES]_vars

-----------------------------------------------------------------------------
(* Either patch builder, built and converted                               *)

NextPatch ==
    \/ NewPE
    \/ NewRemovePE
    \/ IdPE
    \/ RetryPE
    \/ SelectorPE
    \/ ModePE
    \/ UseViewTransitionPE
    \/ IntoDatastarEventPE
    \/ AsDatastarEventPE
    \/ NewPS
    \/ IdPS
    \/ RetryPS
    \/ OnlyIfMissingPS
    \/ IntoDatastarEventPS
    \/ AsDatastarEventPS
    \/ Display

SpecPatch == InitBuild /\ [][NextPatch]_vars

-----------------------------------------------------------------------------
(* Any builder, converted by reference once and again                      *)

\* as_datastar_event called again on the descriptor it borrowed before
AsDatastarEventAgainPE ==
    /\ pc \in {"converted", "reconverted"}
    /\ IsSome(builder)
    /\ Unwrap(builder).type = "PatchElements"
    /\ event' = Some(PatchElements_as_datastar_event(Unwrap(builder)))
    /\ pc' = "reconverted"
    /\ UNCHANGED <<builder, desc, out, lastId, req, res, reply, sse, stream, hot>>

AsDatastarEventAgainPS ==
    /\ pc \in {"converted", "reconverted"}
    /\ IsSome(builder)
    /\ Unwrap(builder).type = "PatchSignals"
    /\ event' = Some(PatchSignals_as_datastar_event(Unwrap(builder)))
    /\ pc' = "reconverted"
    /\ UNCHANGED <<builder, desc, out, lastId, req, res, reply, sse, stream, hot>>

AsDatastarEventAgainES ==
    /\ pc \in {"converted", "reconverted"}
    /\ IsSome(builder)
    /\ Unwrap(builder).type = "ExecuteScript"
    /\ event' = Some(ExecuteScript_as_datastar_event(Unwrap(builder)))
    /\ pc' = "reconverted"
    /\ UNCHANGED <<builder, desc, out, lastId, req, res, reply, sse, stream, hot>>

NextBuilders ==
    \/ NewPE
    \/ NewRemovePE
    \/ IdPE
    \/ RetryPE
    \/ SelectorPE
    \/ ModePE
    \/ UseViewTransitionPE
    \/ IntoDatastarEventPE
    \/ AsDatastarEventPE
    \/ AsDatastarEventAgainPE
    \/ NewPS
    \/ IdPS
    \/ RetryPS
    \/ OnlyIfMissingPS
    \/ IntoDatastarEventPS
    \/ AsDatastarEventPS
    \/ AsDatastarEventAgainPS
    \/ NewES
    \/ IdES
    \/ RetryES
    \/ AutoRemoveES
    \/ AttributesES
    \/ IntoDatastarEventES
    \/ AsDatastarEventES
    \/ AsDatastarEventAgainES

SpecBuilders == InitBuild /\ [][NextBuilders]_vars

-----------------------------------------------------------------------------
(* One request given to the signal extractors of the two bindings          *)

\* a request arrives
Receive ==
    /\ pc = "start"
    /\ \E r \in Requests : req' = Some(r)
    /\ pc' = "received"
    /\ UNCHANGED <<builder, desc, event, out, lastId, res, reply, sse, stream, hot>>

Pending(entry) == pc = "received" /\ IsSome(req) /\ res[entry] = None

AxumFromRequest ==
    /\ Pending("axum::FromRequest")
    /\ res' = [res EXCEPT !["axum::FromRequest"] = Some(axum_from_request(Unwrap(req)))]
    /\ UNCHANGED <<pc, builder, desc, event, out, lastId, req, reply, sse, stream, hot>>

AxumOptionalFromRequest ==
    /\ Pending("axum::OptionalFromRequest")
    /\ res' = [res EXCEPT !["axum::OptionalFromRequest"] =
                              Some(axum_optional_from_request(Unwrap(req)))]
    /\ UNCHANGED <<pc, builder, desc, event, out, lastId, req, reply, sse, stream, hot>>

WarpReadSignals ==
    /\ Pending("warp::read_signals")
    /\ res' = [res EXCEPT !["warp::read_signals"] = Some(read_signals(Unwrap(req)))]
    /\ UNCHANGED <<pc, builder, desc, event, out, lastId, req, reply, sse, stream, hot>>

WarpReadSignalsOptional ==
    /\ Pending("warp::read_signals_optional")
    /\ res' = [res EXCEPT !["warp::read_signals_optional"] =
                              Some(read_signals_optional(Unwrap(req)))]
    /\ UNCHANGED <<pc, builder, desc, event, out, lastId, req, reply, sse, stream, hot>>

\* the rejections the route can hand to recover(handle_rejection)
Rejections ==
    {Unwrap(res[e]).val : e \in {x \in {"warp::read_signals", "warp::read_signals_optional"} :
                                    IsSome(res[x]) /\ ~Unwrap(res[x]).ok}}
        \cup {NotFound}

\* .recover(handle_rejection)
WarpHandleRejection ==
    /\ pc = "received"
    /\ reply = None
    /\ \E err \in Rejections :
          reply' = Some([rejection |-> err, response |-> handle_rejection(err)])
    /\ UNCHANGED <<pc, builder, desc, event, out, lastId, req, res, sse, stream, hot>>

NextExtract ==
    \/ Receive
    \/ AxumFromRequest
    \/ AxumOptionalFromRequest
    \/ WarpReadSignals
    \/ WarpReadSignalsOptional
    \/ WarpHandleRejection

SpecExtract == InitBuild /\ [][NextExtract]_vars

-----------------------------------------------------------------------------
(* A DatastarEvent encoded and given to the adapters of the transports     *)

Adaptable(t) == pc \in {"converted", "encoded"} /\ IsSome(event) /\ sse[t] = None

WriteAsAxumSseEvent ==
    /\ Adaptable("axum")
    /\ sse' = [sse EXCEPT !["axum"] = Some(write_as_axum_sse_event(Unwrap(event)))]
    /\ UNCHANGED <<pc, builder, desc, event, out, lastId, req, res, reply, stream, hot>>

WriteAsWarpSseEvent ==
    /\ Adaptable("warp")
    /\ sse' = [sse EXCEPT !["warp"] = Some(write_as_warp_sse_event(Unwrap(event)))]
    /\ UNCHANGED <<pc, builder, desc, event, out, lastId, req, res, reply, stream, hot>>

\* the crate is built with or without overflow checks
WriteAsRocketSseEvent ==
    /\ Adaptable("rocket")
    /\ \E overflow_checks \in BOOLEAN :
          sse' = [sse EXCEPT !["rocket"] =
                      Some(write_as_rocket_sse_event(Unwrap(event), overflow_checks))]
    /\ UNCHANGED <<pc, builder, desc, event, out, lastId, req, res, reply, stream, hot>>

NextAdapters ==
    \/ Display
    \/ WriteAsAxumSseEvent
    \/ WriteAsWarpSseEvent
    \/ WriteAsRocketSseEvent

SpecAdapters == InitDisplay /\ [][NextAdapters]_vars

-----------------------------------------------------------------------------
(* A test case answered by the handler of a test suite                     *)

\* the events a test case is made of
TE_script ==
    [type |-> "executeScript", script |-> <<"a">>, event_id |-> None,
     retry_duration |-> None, attributes |-> None, auto_remove |-> None]
TE_module ==
    [type |-> "executeScript", script |-> <<"b">>, event_id |-> Some(<<"a">>),
     retry_duration |-> Some(1),
     attributes |-> Some(<< <<<<"t","y","p","e">>, Value_String(<<"m","o","d","u","l","e">>)>> >>),
     auto_remove |-> Some(FALSE)]
TE_append ==
    [type |-> "patchElements", elements |-> Some(<<"a">>), event_id |-> Some(<<"b">>),
     retry_duration |-> None, selector |-> Some(<<"#","a">>),
     mode |-> Some(<<"a","p","p","e","n","d">>), use_view_transition |-> Some(TRUE)]
TE_empty ==
    [type |-> "patchElements", elements |-> None, event_id |-> None,
     retry_duration |-> None, selector |-> None, mode |-> None,
     use_view_transition |-> None]
TE_raw ==
    [type |-> "patchSignals", signals |-> None, signals_raw |-> Some(SignalsA1),
     event_id |-> None, retry_duration |-> None, only_if_missing |-> Some(TRUE)]
TE_signals ==
    [type |-> "patchSignals",
     signals |-> Some(<< <<<<"a">>, Value_String(<<"b">>)>> >>),
     signals_raw |-> None, event_id |-> None, retry_duration |-> None,
     only_if_missing |-> None]
TestCaseEvents == {TE_script, TE_module, TE_append, TE_empty, TE_raw, TE_signals}

\* the longest test case
MaxEvents == 3

TestCases == SeqUpTo(TestCaseEvents, MaxEvents)

\* the handler is called with an extracted test case: the stream it returns
\* has written nothing and its loop is before the first iteration
NewStream(handler, test_case) ==
    [handler |-> handler, events |-> test_case, next |-> 1,
     yielded |-> None, written |-> <<>>]

\* axum: async fn test(ReadSignals(test_case)) returns Sse::new(stream!{..})
AxumTest ==
    /\ pc = "start"
    /\ \E test_case \in TestCases : stream' = Some(NewStream("axum", test_case))
    /\ pc' = "streaming"
    /\ UNCHANGED <<builder, desc, event, out, lastId, req, res, reply, sse, hot>>

\* warp: the map closure of the test route returns warp::sse::reply(..)
WarpTest ==
    /\ pc = "start"
    /\ \E test_case \in TestCases : stream' = Some(NewStream("warp", test_case))
    /\ pc' = "streaming"
    /\ UNCHANGED <<builder, desc, event, out, lastId, req, res, reply, sse, hot>>

\* the loop body runs when the stream is polled and nothing yielded is
\* waiting to be taken
Iterating(handler) ==
    /\ pc = "streaming"
    /\ IsSome(stream)
    /\ Unwrap(stream).handler = handler
    /\ Unwrap(stream).yielded = None
    /\ Unwrap(stream).next <= Len(Unwrap(stream).events)

\* one iteration of the loop of the axum handler, up to its yield
AxumYield ==
    /\ Iterating("axum")
    /\ LET s == Unwrap(stream)
       IN  stream' = Some([s EXCEPT
               !.yielded = Some(Ok(write_as_axum_sse_event(
                               test_datastar_event(for_event(s.events, s.next))).val)),
               !.next = s.next + 1])
    /\ UNCHANGED <<pc, builder, desc, event, out, lastId, req, res, reply, sse, hot>>

\* one iteration of the loop of the warp handler, up to its yield_item
WarpYield ==
    /\ Iterating("warp")
    /\ LET s == Unwrap(stream)
       IN  stream' = Some([s EXCEPT
               !.yielded = Some(Ok(write_as_warp_sse_event(
                               test_datastar_event(for_event(s.events, s.next))).val)),
               !.next = s.next + 1])
    /\ UNCHANGED <<pc, builder, desc, event, out, lastId, req, res, reply, sse, hot>>

\* the SSE body takes the yielded item from the stream and writes it
SseWrite ==
    /\ pc = "streaming"
    /\ IsSome(stream)
    /\ IsSome(Unwrap(stream).yielded)
    /\ LET s == Unwrap(stream)
       IN  stream' = Some([s EXCEPT
               !.written = Append(s.written, Unwrap(s.yielded).val),
               !.yielded = None])
    /\ UNCHANGED <<pc, builder, desc, event, out, lastId, req, res, reply, sse, hot>>

\* the loop is over: the stream ends and the body is complete
StreamEnd ==
    /\ pc = "streaming"
    /\ IsSome(stream)
    /\ Unwrap(stream).yielded = None
    /\ Unwrap(stream).next > Len(Unwrap(stream).events)
    /\ pc' = "done"
    /\ UNCHANGED <<builder, desc, event, out, lastId, req, res, reply, sse, stream, hot>>

NextTestSuite ==
    \/ AxumTest
    \/ WarpTest
    \/ AxumYield
    \/ WarpYield
    \/ SseWrite
    \/ StreamEnd

SpecTestSuite == InitBuild /\ [][NextTestSuite]_vars

-----------------------------------------------------------------------------
(* The /hotreload connections of one process                               *)

\* GET /hotreload: the handler returns Sse::new(stream_fn(..)), whose
\* closure has not run yet
Hotreload ==
    \E c \in Connections :
        /\ hot.conn[c].at = "idle"
        /\ hot' = [hot EXCEPT !.conn[c].at = "connected"]
        /\ UNCHANGED <<pc, builder, desc, event, out, lastId, req, res, reply, sse, stream>>

\* if !ONCE.swap(true, SeqCst): the stream enters the if or goes on to
\* pending().await
OnceSwap ==
    \E c \in Connections :
        /\ hot.conn[c].at = "connected"
        /\ LET swapped == AtomicBool_swap(hot.ONCE, TRUE)
           IN  hot' = [hot EXCEPT
                   !.ONCE = swapped.new,
                   !.order = Append(@, c),
                   !.conn[c].at = IF ~swapped.old THEN "first" ELSE "pending"]
        /\ UNCHANGED <<pc, builder, desc, event, out, lastId, req, res, reply, sse, stream>>

\* the body of the if: the reload script is yielded and written, and the
\* stream goes on to pending().await
YieldReload ==
    \E c \in Connections :
        /\ hot.conn[c].at = "first"
        /\ hot' = [hot EXCEPT
               !.conn[c].written = Append(@, hotreload_sse_event),
               !.conn[c].at = "pending"]
        /\ UNCHANGED <<pc, builder, desc, event, out, lastId, req, res, reply, sse, stream>>

\* std::future::pending().await polled: the stream ends if the future is
\* ever ready
PollPending ==
    \E c \in Connections :
        /\ hot.conn[c].at = "pending"
        /\ hot.conn[c].polls < MaxPolls
        /\ hot' = [hot EXCEPT
               !.conn[c].polls = @ + 1,
               !.conn[c].at = IF Pending_poll = "Ready" THEN "ended" ELSE "pending"]
        /\ UNCHANGED <<pc, builder, desc, event, out, lastId, req, res, reply, sse, stream>>

NextLiveReload ==
    \/ Hotreload
    \/ OnceSwap
    \/ YieldReload
    \/ PollPending

SpecLiveReload == InitBuild /\ [][NextLiveReload]_vars

-----------------------------------------------------------------------------
(* Reading an encoded text back, for the statements below                  *)

\* the text split at every "\n" (a text ending in "\n" ends with an empty piece)
RECURSIVE SplitLF(_)
SplitLF(s) ==
    IF \E i \in 1..Len(s) : s[i] = LF
    THEN LET i == CHOOSE k \in 1..Len(s) :
                      s[k] = LF /\ \A j \in 1..(k - 1) : s[j] # LF
         IN  <<SubSeq(s, 1, i - 1)>> \o SplitLF(SubSeq(s, i + 1, Len(s)))
    ELSE <<s>>

StartsWith(s, p) == Len(s) >= Len(p) /\ SubSeq(s, 1, Len(p)) = p
EndsWith(s, p) == Len(s) >= Len(p) /\ SubSeq(s, Len(s) - Len(p) + 1, Len(s)) = p
StripPrefix(s, p) == SubSeq(s, Len(p) + 1, Len(s))

HasTerminator(s) == \E i \in 1..Len(s) : s[i] \in {LF, CR}

\* the event's id and data lines contain no line terminator
WellFormed(e) ==
    /\ IsSome(e.id) => ~HasTerminator(Unwrap(e.id))
    /\ \A k \in 1..Len(e.data) : ~HasTerminator(e.data[k])

\* the indices of the lines that start with p, in increasing order
RECURSIVE IndicesFrom(_, _, _)
IndicesFrom(ls, p, k) ==
    IF k > Len(ls) THEN <<>>
    ELSE (IF StartsWith(ls[k], p) THEN <<k>> ELSE <<>>) \o IndicesFrom(ls, p, k + 1)
LinesWith(ls, p) == IndicesFrom(ls, p, 1)

Encoded == pc = "encoded" /\ IsSome(event) /\ IsSome(out)

Converted(type) ==
    /\ pc \in {"converted", "encoded"}
    /\ IsSome(desc) /\ IsSome(event)
    /\ Unwrap(desc).type = type

\* the number of lines of a text: one per "\n", and one more for a last line
\* that no "\n" ends
CountLF(s) == Cardinality({i \in 1..Len(s) : s[i] = LF})
LineCount(s) == CountLF(s) + (IF s # <<>> /\ s[Len(s)] # LF THEN 1 ELSE 0)

\* the lines joined again with "\n" between them
RECURSIVE JoinFrom(_, _)
JoinFrom(ls, k) ==
    IF k > Len(ls) THEN <<>>
    ELSE ls[k] \o (IF k < Len(ls) THEN <<LF>> ELSE <<>>) \o JoinFrom(ls, k + 1)
JoinLF(ls) == JoinFrom(ls, 1)

\* a text with every "\r\n" read as "\n" and without its last "\n"
RECURSIVE DropCRBeforeLF(_, _)
DropCRBeforeLF(s, k) ==
    IF k > Len(s) THEN <<>>
    ELSE (IF s[k] = CR /\ k < Len(s) /\ s[k + 1] = LF THEN <<>> ELSE <<s[k]>>)
         \o DropCRBeforeLF(s, k + 1)
Normalized(s) ==
    LET u == DropCRBeforeLF(s, 1)
    IN  IF u # <<>> /\ u[Len(u)] = LF THEN SubSeq(u, 1, Len(u) - 1) ELSE u

\* the data lines at the indices idx, without the prefix p
Stripped(data, idx, p) == [k \in 1..Len(idx) |-> StripPrefix(data[idx[k]], p)]

P_event == <<"e","v","e","n","t",":">>
P_id == <<"i","d",":">>
P_retry == <<"r","e","t","r","y",":">>
P_data == <<"d","a","t","a",":"," ">>
P_selector == <<"s","e","l","e","c","t","o","r"," ">>
P_mode == <<"m","o","d","e"," ">>
P_useViewTransition == <<"u","s","e","V","i","e","w","T","r","a","n","s","i","t","i","o","n"," ">>
P_elements == <<"e","l","e","m","e","n","t","s"," ">>
P_signals == <<"s","i","g","n","a","l","s"," ">>
P_onlyIfMissing == <<"o","n","l","y","I","f","M","i","s","s","i","n","g"," ">>

-----------------------------------------------------------------------------
(* The encoder (lib.rs)                                                    *)

\* C1: for every DatastarEvent whose id and data lines contain no line
\* terminator, the encoded text contains exactly one "event:" line, which is
\* its first line, and ends with exactly one blank line: it ends in "\n\n" and
\* not in "\n\n\n", also when the data list is empty.
C1_OneEventLineOneBlankLine ==
    (Encoded /\ WellFormed(Unwrap(event))) =>
        LET t  == Unwrap(out)
            ls == SplitLF(t)
        IN  /\ LinesWith(ls, P_event) = <<1>>
            /\ EndsWith(t, <<LF, LF>>)
            /\ ~EndsWith(t, <<LF, LF, LF>>)

\* an event with an id and an empty data list, encoded
C1_Witness ==
    /\ Encoded
    /\ WellFormed(Unwrap(event))
    /\ Unwrap(event).data = <<>>
    /\ IsSome(Unwrap(event).id)
    /\ EndsWith(Unwrap(out), <<LF, LF>>)

\* C2: the encoded text holds its lines in the fixed order event, id (if
\* any), retry (if any), then one "data: <line>" per element of data: the
\* k-th "data:" line carries the k-th element and there are as many "data:"
\* lines as elements, followed only by the blank line.
C2_LinesInOrder ==
    (Encoded /\ WellFormed(Unwrap(event))) =>
        LET e   == Unwrap(event)
            ls  == SplitLF(Unwrap(out))
            ids == LinesWith(ls, P_id)
            rs  == LinesWith(ls, P_retry)
            ds  == LinesWith(ls, P_data)
        IN  /\ LinesWith(ls, P_event) = <<1>>
            /\ ids \in {<<>>, <<2>>}
            /\ rs \in {<<>>, <<2 + Len(ids)>>}
            /\ Len(ds) = Len(e.data)
            /\ \A k \in 1..Len(ds) :
                  /\ ds[k] = 1 + Len(ids) + Len(rs) + k
                  /\ StripPrefix(ls[ds[k]], P_data) = e.data[k]
            /\ Len(ls) = 1 + Len(ids) + Len(rs) + Len(ds) + 2
            /\ ls[Len(ls) - 1] = <<>> /\ ls[Len(ls)] = <<>>

\* an event with an id, a retry line and two different data lines, encoded
C2_Witness ==
    /\ Encoded
    /\ WellFormed(Unwrap(event))
    /\ IsSome(Unwrap(event).id)
    /\ as_millis(Unwrap(event).retry) # DEFAULT_SSE_RETRY_DURATION
    /\ Len(Unwrap(event).data) = 2
    /\ Unwrap(event).data[1] # Unwrap(event).data[2]
    /\ Len(LinesWith(SplitLF(Unwrap(out)), P_data)) = 2

HasRetryLine == LinesWith(SplitLF(Unwrap(out)), P_retry) # <<>>

\* C3 as stated: the encoded text contains a "retry:" line exactly when the
\* retry Duration is not equal to the default Duration of 1000 ms.
C3_RetryIffDurationDiffers ==
    (Encoded /\ WellFormed(Unwrap(event))) =>
        (HasRetryLine <=> Unwrap(event).retry # from_millis(1000))

\* C3, amended: the event carries the Duration given to the builder, and the
\* encoded text contains a "retry:" line exactly when that Duration, cut to
\* whole milliseconds, is not 1000.
C3_RetryIffMillisDiffer ==
    (Encoded /\ IsSome(desc)) =>
        /\ Unwrap(event).retry = Unwrap(desc).retry
        /\ WellFormed(Unwrap(event)) =>
              (HasRetryLine <=> as_millis(Unwrap(desc).retry) # 1000)

\* a retry of 1000.5 ms given to the builder, encoded without a "retry:" line
C3_Witness ==
    /\ Encoded
    /\ IsSome(desc)
    /\ WellFormed(Unwrap(event))
    /\ Unwrap(desc).retry = [secs |-> 1, nanos |-> 500000]
    /\ ~HasRetryLine

\* C4: the event's id is the one given to the last id(..) call, absent when
\* id(..) was never called; the encoded text contains an "id:" line iff the
\* id is set, and that line, the second, is "id: " followed by the id.
C4_IdLineIffSet ==
    Encoded =>
        LET e   == Unwrap(event)
            ls  == SplitLF(Unwrap(out))
            ids == LinesWith(ls, P_id)
        IN  /\ e.id = lastId
            /\ WellFormed(e) =>
                  /\ (ids # <<>>) <=> IsSome(lastId)
                  /\ IsSome(lastId) =>
                        /\ ids = <<2>>
                        /\ ls[2] = P_id \o <<" ">> \o Unwrap(lastId)

\* the builder consumed after id(..) calls ending with id("b"), encoded
C4_Witness ==
    /\ Encoded
    /\ builder = None
    /\ lastId = Some(<<"b">>)
    /\ WellFormed(Unwrap(event))
    /\ LinesWith(SplitLF(Unwrap(out)), P_id) = <<2>>

-----------------------------------------------------------------------------
(* PatchElements (patch_elements.rs)                                       *)

\* C5: no element of a converted event's data list contains an embedded
\* newline, whatever strings the builder holds.
C5_NoEmbeddedNewline ==
    (pc \in {"converted", "encoded"} /\ IsSome(event)) =>
        \A k \in 1..Len(Unwrap(event).data) :
            \A i \in 1..Len(Unwrap(event).data[k]) : Unwrap(event).data[k][i] # LF

\* C6: the conversion of a PatchElements emits one "elements <line>" data
\* line per line of the markup, in markup order and after every other data
\* line ("a\nb\nc" gives a, b, c); none when the markup is absent, and none
\* for the empty markup.
C6_ElementsLines ==
    Converted("PatchElements") =>
        LET d    == Unwrap(desc)
            data == Unwrap(event).data
            idx  == LinesWith(data, P_elements)
            el   == Stripped(data, idx, P_elements)
        IN  /\ ~IsSome(d.elements) => idx = <<>>
            /\ IsSome(d.elements) =>
                  LET markup == Unwrap(d.elements)
                  IN  /\ Len(el) = LineCount(markup)
                      /\ JoinLF(el) = Normalized(markup)
                      /\ \A k \in 1..Len(el) :
                            /\ CountLF(el[k]) = 0
                            /\ idx[k] = Len(data) - Len(el) + k
                      /\ markup = <<>> => idx = <<>>
                      /\ markup = MarkupABC => el = << <<"a">>, <<"b">>, <<"c">> >>

\* PatchElements::new("a\nb\nc") converted to three "elements" lines
C6_Witness ==
    /\ Converted("PatchElements")
    /\ Unwrap(desc).elements = Some(MarkupABC)
    /\ Unwrap(desc).selector = None
    /\ Len(LinesWith(Unwrap(event).data, P_elements)) = 3

\* C7: a "selector <value>" line is emitted iff a selector is set, a
\* "mode <token>" line iff the mode is not Outer, a "useViewTransition <bool>"
\* line iff the flag is not false; they come in this order and before every
\* "elements" line; new(markup) alone emits none of the three.
C7_DefaultElision ==
    Converted("PatchElements") =>
        LET d    == Unwrap(desc)
            data == Unwrap(event).data
            s    == LinesWith(data, P_selector)
            m    == LinesWith(data, P_mode)
            u    == LinesWith(data, P_useViewTransition)
            el   == LinesWith(data, P_elements)
        IN  /\ (s # <<>>) <=> IsSome(d.selector)
            /\ IsSome(d.selector) =>
                  s = <<1>> /\ data[1] = P_selector \o Unwrap(d.selector)
            /\ (m # <<>>) <=> d.mode # "Outer"
            /\ d.mode # "Outer" =>
                  /\ m = <<Len(s) + 1>>
                  /\ data[Len(s) + 1] = P_mode \o ElementPatchMode_as_str(d.mode)
            /\ (u # <<>>) <=> d.use_view_transition # FALSE
            /\ d.use_view_transition # FALSE =>
                  /\ u = <<Len(s) + Len(m) + 1>>
                  /\ data[Len(s) + Len(m) + 1] = P_useViewTransition \o <<"t","r","u","e">>
            /\ \A k \in 1..Len(el) : el[k] = Len(s) + Len(m) + Len(u) + k
            /\ Len(data) = Len(s) + Len(m) + Len(u) + Len(el)
            /\ (IsSome(d.elements) /\ d = PatchElements_new(Unwrap(d.elements))) =>
                  s = <<>> /\ m = <<>> /\ u = <<>>

\* a selector, the mode Inner and a view transition set, with one markup line
C7_Witness ==
    /\ Converted("PatchElements")
    /\ IsSome(Unwrap(desc).selector)
    /\ Unwrap(desc).mode = "Inner"
    /\ Unwrap(desc).use_view_transition
    /\ Unwrap(desc).elements = Some(<<"a">>)
    /\ Len(Unwrap(event).data) = 4

\* C8: new_remove(s) with no further setter converts to an event of kind
\* PatchElements whose data is exactly "selector s" and "mode remove".
C8_NewRemove ==
    \A sel \in Selectors :
        (Converted("PatchElements") /\ Unwrap(desc) = PatchElements_new_remove(sel)) =>
            /\ Unwrap(event).event = "PatchElements"
            /\ Unwrap(event).data = <<P_selector \o sel, <<"m","o","d","e"," ","r","e","m","o","v","e">>>>
            /\ LinesWith(Unwrap(event).data, P_elements) = <<>>

\* new_remove("a") converted
C8_Witness ==
    /\ Converted("PatchElements")
    /\ Unwrap(desc) = PatchElements_new_remove(<<"a">>)
    /\ Len(Unwrap(event).data) = 2

\* C9: no PatchElements that constructor and setter calls can build has
\* elements == None with a mode other than Remove.
C9_AbsentOnlyWhenRemove ==
    (IsSome(builder) /\ Unwrap(builder).type = "PatchElements") =>
        (Unwrap(builder).elements = None => Unwrap(builder).mode = "Remove")

-----------------------------------------------------------------------------
(* PatchSignals (patch_signals.rs)                                         *)

\* C10: the conversion of a PatchSignals emits "onlyIfMissing <bool>" iff
\* only_if_missing is not false, as the first data line, then one
\* "signals <line>" line per line of the signals string, in order
\* (only_if_missing with {"a":1} gives "onlyIfMissing true", then
\* "signals {"a":1}"); the event kind is PatchSignals.
C10_PatchSignalsLines ==
    Converted("PatchSignals") =>
        LET d    == Unwrap(desc)
            data == Unwrap(event).data
            o    == LinesWith(data, P_onlyIfMissing)
            idx  == LinesWith(data, P_signals)
            sl   == Stripped(data, idx, P_signals)
        IN  /\ Unwrap(event).event = "PatchSignals"
            /\ (o # <<>>) <=> d.only_if_missing # FALSE
            /\ d.only_if_missing # FALSE =>
                  o = <<1>> /\ data[1] = P_onlyIfMissing \o <<"t","r","u","e">>
            /\ \A k \in 1..Len(idx) : idx[k] = Len(o) + k
            /\ Len(data) = Len(o) + Len(idx)
            /\ Len(sl) = LineCount(d.signals)
            /\ JoinLF(sl) = Normalized(d.signals)
            /\ \A k \in 1..Len(sl) : CountLF(sl[k]) = 0
            /\ (d.only_if_missing /\ d.signals = SignalsA1) =>
                  data = <<P_onlyIfMissing \o <<"t","r","u","e">>, P_signals \o SignalsA1>>

\* only_if_missing(true) with the signals {"a":1}, converted
C10_Witness ==
    /\ Converted("PatchSignals")
    /\ Unwrap(desc).only_if_missing
    /\ Unwrap(desc).signals = SignalsA1
    /\ Len(Unwrap(event).data) = 2

-----------------------------------------------------------------------------
(* ExecuteScript (execute_script.rs)                                       *)

\* sub occurs in s
Contains(s, sub) ==
    \E i \in 1..(Len(s) - Len(sub) + 1) : SubSeq(s, i, i + Len(sub) - 1) = sub

\* every string of ss in order, each preceded by one space
RECURSIVE SpacedFrom(_, _)
SpacedFrom(ss, k) ==
    IF k > Len(ss) THEN <<>> ELSE <<" ">> \o ss[k] \o SpacedFrom(ss, k + 1)

T_script == <<"<", "s", "c", "r", "i", "p", "t">>
T_dataEffect == <<" ", "d", "a", "t", "a", "-", "e", "f", "f", "e", "c", "t", "=", "\"", "e", "l", ".", "r", "e", "m", "o", "v", "e", "(", ")", "\"">>
T_endScript == <<"<", "/", "s", "c", "r", "i", "p", "t", ">">>
T_scriptModule == <<"<", "s", "c", "r", "i", "p", "t", " ", "d", "a", "t", "a", "-", "e", "f", "f", "e", "c", "t", "=", "\"", "e", "l", ".", "r", "e", "m", "o", "v", "e", "(", ")", "\"", " ", "t", "y", "p", "e", "=", "\"", "m", "o", "d", "u", "l", "e", "\"", ">">>

\* C11: every converted ExecuteScript has kind PatchElements, and its first
\* two data lines are exactly "selector body" and "mode append", in that
\* order, before any "elements" line.
C11_HeadLines ==
    Converted("ExecuteScript") =>
        LET e == Unwrap(event)
        IN  /\ e.event = "PatchElements"
            /\ Len(e.data) >= 3
            /\ e.data[1] = <<"s", "e", "l", "e", "c", "t", "o", "r", " ", "b", "o", "d", "y">>
            /\ e.data[2] = <<"m", "o", "d", "e", " ", "a", "p", "p", "e", "n", "d">>
            /\ \A k \in 1..Len(e.data) : StartsWith(e.data[k], P_elements) => k > 2
            /\ LinesWith(e.data, P_elements) # <<>>

\* a two-line script with attributes, auto-remove off, an id and a retry
\* of 1001 ms has been converted
C11_Witness ==
    /\ Converted("ExecuteScript")
    /\ Unwrap(desc).script = ScriptAB
    /\ Unwrap(desc).attributes # <<>>
    /\ Unwrap(desc).auto_remove = Some(FALSE)
    /\ IsSome(Unwrap(desc).id)
    /\ as_millis(Unwrap(desc).retry) = 1001
    /\ Unwrap(event).data[1] = <<"s", "e", "l", "e", "c", "t", "o", "r", " ", "b", "o", "d", "y">>

\* C12: a script of n >= 1 lines yields exactly n "elements" lines: the
\* first script line directly after the opening tag's ">", every later
\* script line as its own "elements <line>", and "</script>" appended to
\* the last of them rather than added as a line; a single-line script
\* yields one line holding the whole tag.
C12_ScriptLayout ==
    Converted("ExecuteScript") =>
        LET e  == Unwrap(event)
            ls == lines(Unwrap(desc).script)
            n  == Len(ls)
            closing(i) == IF i = n THEN T_endScript ELSE <<>>
        IN  n >= 1 =>
              /\ Len(e.data) = n + 2
              /\ LinesWith(e.data, P_elements) = [i \in 1..n |-> i + 2]
              /\ StartsWith(e.data[3], P_elements \o T_script)
              /\ EndsWith(e.data[3], <<">">> \o ls[1] \o closing(1))
              /\ \A i \in 2..n : e.data[i + 2] = P_elements \o ls[i] \o closing(i)
              /\ ~EndsWith(e.data[2], T_endScript)
              /\ n = 1 => /\ LinesWith(e.data, P_elements) = <<3>>
                          /\ StartsWith(e.data[3], P_elements \o T_script)
                          /\ EndsWith(e.data[3], <<">">> \o ls[1] \o T_endScript)

\* the two-line script "a\nb" has been converted to "...>a" and
\* "elements b</script>"
C12_Witness ==
    /\ Converted("ExecuteScript")
    /\ Unwrap(desc).script = ScriptAB
    /\ Len(Unwrap(event).data) = 4
    /\ EndsWith(Unwrap(event).data[3], <<">", "a">>)
    /\ Unwrap(event).data[4] = <<"e", "l", "e", "m", "e", "n", "t", "s", " ", "b", "<", "/", "s", "c", "r", "i", "p", "t", ">">>

\* C13: the opening tag is "<script", then the data-effect attribute iff
\* auto_remove is unset or Some(true), then each attribute in list order
\* preceded by one space, then ">"; a two-line script with the single
\* attribute type="module" and auto_remove unset starts its first
\* "elements" line with <script data-effect="el.remove()" type="module">.
C13_OpeningTag ==
    Converted("ExecuteScript") =>
        LET e    == Unwrap(event)
            d    == Unwrap(desc)
            on   == d.auto_remove \in {None, Some(TRUE)}
            tag  == T_script \o (IF on THEN T_dataEffect ELSE <<>>)
                        \o SpacedFrom(d.attributes, 1) \o <<">">>
            text == StripPrefix(e.data[3], P_elements)
        IN  /\ StartsWith(e.data[3], P_elements)
            /\ StartsWith(text, tag)
            /\ (d.script = ScriptAB /\ d.attributes = <<TypeModule>>
                    /\ d.auto_remove = None)
               => /\ StartsWith(text, T_scriptModule \o <<"a">>)
                  /\ Len(LinesWith(e.data, P_elements)) = 2

\* the two-line script with the attribute type="module" and auto_remove
\* unset has been converted
C13_Witness ==
    /\ Converted("ExecuteScript")
    /\ Unwrap(desc).script = ScriptAB
    /\ Unwrap(desc).attributes = <<TypeModule>>
    /\ Unwrap(desc).auto_remove = None
    /\ StartsWith(Unwrap(event).data[3], P_elements \o T_scriptModule)

-----------------------------------------------------------------------------
(* Round trip of the patch builders                                        *)

T_true == <<"t", "r", "u", "e">>
T_false == <<"f", "a", "l", "s", "e">>

\* the prefixes a data line is read back by
Prefixes == {P_selector, P_mode, P_useViewTransition, P_elements, P_signals, P_onlyIfMissing}

\* the text of the first line of data that starts with p, if any
FirstWith(data, p) ==
    LET idx == LinesWith(data, p)
    IN  IF idx = <<>> THEN None ELSE Some(StripPrefix(data[idx[1]], p))

\* every line starts with one of the prefixes, and the single-valued
\* fields have at most one line
Parseable(data) ==
    /\ \A k \in 1..Len(data) : \E p \in Prefixes : StartsWith(data[k], p)
    /\ \A p \in {P_selector, P_mode, P_useViewTransition, P_onlyIfMissing} :
          Len(LinesWith(data, p)) <= 1

\* a mode token read back; an absent line is the default mode
ParseMode(o) ==
    IF o = None THEN "Outer"
    ELSE IF \E m \in ElementPatchMode : ElementPatchMode_as_str(m) = Unwrap(o)
         THEN CHOOSE m \in ElementPatchMode : ElementPatchMode_as_str(m) = Unwrap(o)
         ELSE "?"

\* a boolean token read back; an absent line is the default false
ParseBool(o) ==
    IF o = None THEN FALSE
    ELSE IF Unwrap(o) = T_true THEN TRUE
    ELSE IF Unwrap(o) = T_false THEN FALSE
    ELSE "?"

\* the fields of an element patch read back from data lines
ParsedElements(data) ==
    [selector            |-> FirstWith(data, P_selector),
     mode                |-> ParseMode(FirstWith(data, P_mode)),
     use_view_transition |-> ParseBool(FirstWith(data, P_useViewTransition)),
     markup_lines        |-> Stripped(data, LinesWith(data, P_elements), P_elements)]

\* the fields of a signal patch read back from data lines
ParsedSignals(data) ==
    [signals_lines   |-> Stripped(data, LinesWith(data, P_signals), P_signals),
     only_if_missing |-> ParseBool(FirstWith(data, P_onlyIfMissing))]

\* C15: reading the converted event's data lines back by their prefix
\* recovers the descriptor's selector, mode, view-transition flag and
\* markup lines (PatchElements), and its signals lines and only-if-missing
\* flag (PatchSignals), exactly.
C15_RoundTrip ==
    /\ Converted("PatchElements") =>
          LET d == Unwrap(desc)
              e == Unwrap(event)
          IN  /\ Parseable(e.data)
              /\ ParsedElements(e.data) =
                    [selector            |-> d.selector,
                     mode                |-> d.mode,
                     use_view_transition |-> d.use_view_transition,
                     markup_lines        |-> IF IsSome(d.elements)
                                             THEN lines(Unwrap(d.elements))
                                             ELSE <<>>]
    /\ Converted("PatchSignals") =>
          LET d == Unwrap(desc)
              e == Unwrap(event)
          IN  /\ Parseable(e.data)
              /\ ParsedSignals(e.data) =
                    [signals_lines   |-> lines(d.signals),
                     only_if_missing |-> d.only_if_missing]

\* a patch with an empty selector, a non-default mode, view transitions
\* and the three-line markup has been converted
C15_Witness ==
    /\ Converted("PatchElements")
    /\ Unwrap(desc).selector = Some(<<>>)
    /\ Unwrap(desc).mode = "Append"
    /\ Unwrap(desc).use_view_transition
    /\ Unwrap(desc).elements = Some(MarkupABC)
    /\ Len(Unwrap(event).data) = 6

-----------------------------------------------------------------------------
(* The signal extractors (axum.rs, warp.rs)                                *)

Required == {"axum::FromRequest", "warp::read_signals"}
Optional == {"axum::OptionalFromRequest", "warp::read_signals_optional"}

\* the values of the target type that the inputs can carry
Signals == [delay : 0..9]

\* the entry point e applied to the request r
Run(e, r) ==
    CASE e = "axum::FromRequest" -> axum_from_request(r)
      [] e = "axum::OptionalFromRequest" -> axum_optional_from_request(r)
      [] e = "warp::read_signals" -> read_signals(r)
      [] e = "warp::read_signals_optional" -> read_signals_optional(r)

Ran(e) == pc = "received" /\ IsSome(req) /\ IsSome(res[e])

Engaged(r) == \E h \in r.headers : h[1] = "datastar-request"
JsonContentType(r) == <<"content-type", "application/json">> \in r.headers

\* the three outcomes of an extraction that returned x
IsExtracted(e, x) ==
    /\ x.ok
    /\ IF e \in Required THEN x.val \in Signals
       ELSE x.val # None /\ Unwrap(x.val) \in Signals
IsNotEngaged(x) == x.ok /\ x.val = None
IsRejected(x) == ~x.ok /\ "status" \in DOMAIN x.val

\* C16: the source is chosen from the method alone: a GET is decided by
\* its query (the body is ignored, so a GET without a datastar parameter
\* is rejected even with a valid JSON body), every other method by its
\* body (the query is ignored).
C16_SourceByMethod ==
    \A e \in Required :
        Ran(e) =>
            LET r == Unwrap(req)
                x == Unwrap(res[e])
            IN  /\ r.method = "GET" =>
                      /\ \A b \in Bodies : Run(e, [r EXCEPT !.body = b]) = x
                      /\ r.query \in {None, Some(Q_other)} => IsRejected(x)
                      /\ r.query = Some(Q_delay1) => x = Ok([delay |-> 1])
                /\ r.method # "GET" =>
                      /\ \A q \in Queries : Run(e, [r EXCEPT !.query = q]) = x
                      /\ (r.body = B_delay2 /\ JsonContentType(r)) => x = Ok([delay |-> 2])
                      /\ r.body \in {<<>>, B_open} => IsRejected(x)

\* a GET with a valid JSON body and no query has been rejected by both
\* required extractors
C16_Witness ==
    /\ Ran("axum::FromRequest") /\ Ran("warp::read_signals")
    /\ Unwrap(req).method = "GET"
    /\ Unwrap(req).query = None
    /\ Unwrap(req).body = B_delay2
    /\ JsonContentType(Unwrap(req))
    /\ IsRejected(Unwrap(res["axum::FromRequest"]))
    /\ IsRejected(Unwrap(res["warp::read_signals"]))

\* C17: every extraction ends in exactly one of Extracted, NotEngaged and
\* Rejected, and a required extraction never ends in NotEngaged.
C17_ThreeOutcomes ==
    \A e \in Entries :
        Ran(e) =>
            LET x == Unwrap(res[e])
                outcomes == {o \in {"Extracted", "NotEngaged", "Rejected"} :
                                \/ o = "Extracted" /\ IsExtracted(e, x)
                                \/ o = "NotEngaged" /\ IsNotEngaged(x)
                                \/ o = "Rejected" /\ IsRejected(x)}
            IN  /\ Cardinality(outcomes) = 1
                /\ e \in Required => outcomes \subseteq {"Extracted", "Rejected"}
                /\ (e \in Required /\ x.ok) => x.val \in Signals

\* on a POST without the header and without a content type, the four
\* entry points have ended in Rejected (axum), Extracted (warp) and
\* NotEngaged (both optional ones)
C17_Witness ==
    /\ \A e \in Entries : Ran(e)
    /\ Unwrap(req).method = "POST"
    /\ IsRejected(Unwrap(res["axum::FromRequest"]))
    /\ IsExtracted("warp::read_signals", Unwrap(res["warp::read_signals"]))
    /\ IsNotEngaged(Unwrap(res["axum::OptionalFromRequest"]))
    /\ IsNotEngaged(Unwrap(res["warp::read_signals_optional"]))

\* the text the method selects, if the request has it
SelectedText(r) ==
    IF r.method = "GET"
    THEN LET q == serde_urlencoded_from_str(IF IsSome(r.query) THEN Unwrap(r.query) ELSE <<>>)
         IN  IF q.ok THEN Some(q.val.datastar.v) ELSE None
    ELSE Some(r.body)

\* C18: a missing query parameter, a text that is not JSON and JSON that
\* does not match the target type are each rejected with status 400;
\* every rejection of an extractor has status 400, and handle_rejection
\* replies to a ReadSignalsError with its status 400 and its message.
C18_ClientErrors ==
    /\ \A e \in Entries :
          (Ran(e) /\ ~Unwrap(res[e]).ok) =>
              /\ IsRejected(Unwrap(res[e]))
              /\ Unwrap(res[e]).val.status = 400
    /\ \A e \in Required :
          Ran(e) =>
              LET r == Unwrap(req)
                  x == Unwrap(res[e])
                  t == SelectedText(r)
              IN  /\ t = None => IsRejected(x) /\ x.val.status = 400
                  /\ (IsSome(t) /\ ~serde_json_from_str(Unwrap(t)).ok)
                        => IsRejected(x) /\ x.val.status = 400
    /\ (pc = "received" /\ IsSome(reply)
            /\ Unwrap(reply).rejection.rejection = "ReadSignalsError") =>
          /\ Unwrap(reply).response.status = 400
          /\ Unwrap(reply).response.body = Unwrap(reply).rejection.message
    /\ \A e \in Entries :
          (Ran(e) /\ ~Unwrap(res[e]).ok) => Unwrap(res[e]).val.status < 500

\* a POST whose JSON body does not match the target type has been
\* rejected by both required extractors, and handle_rejection has replied
\* to warp's ReadSignalsError
C18_Witness ==
    /\ Ran("axum::FromRequest") /\ Ran("warp::read_signals")
    /\ Unwrap(req).method = "POST"
    /\ Unwrap(req).body = B_delayString
    /\ JsonContentType(Unwrap(req))
    /\ ~Unwrap(res["axum::FromRequest"]).ok
    /\ IsSome(reply)
    /\ Unwrap(reply).rejection = Unwrap(res["warp::read_signals"]).val
    /\ Unwrap(reply).response.status = 400

\* C19: without the datastar-request header an optional extraction ends
\* in NotEngaged whatever the method, query and body are; it is never
\* rejected.
C19_NotEngagedWithoutHeader ==
    \A e \in Optional :
        (Ran(e) /\ ~Engaged(Unwrap(req))) =>
            /\ Unwrap(res[e]) = Ok(None)
            /\ IsNotEngaged(Unwrap(res[e]))
            /\ ~IsRejected(Unwrap(res[e]))

\* a GET without the header whose datastar parameter is not JSON: both
\* required extractors rejected it, both optional ones have run
C19_Witness ==
    /\ \A e \in Entries : Ran(e)
    /\ ~Engaged(Unwrap(req))
    /\ Unwrap(req).method = "GET"
    /\ Unwrap(req).query = Some(Q_open)
    /\ \A e \in Required : IsRejected(Unwrap(res[e]))
    /\ \A e \in Optional : IsNotEngaged(Unwrap(res[e]))

\* the optional extraction returned o where the required one returned x
OptionalAsRequired(o, x) ==
    /\ \A v \in Signals : (o = Ok(Some(v))) <=> (x = Ok(v))
    /\ (IsRejected(o) /\ o.val.status \in 400..499) <=> IsRejected(x)
    /\ ~x.ok => ~IsNotEngaged(o)

\* C20 as stated: with the header present the optional variant of each
\* binding ends as the required variant does: Extracted(v) iff the
\* required one is Extracted(v), Rejected with a client error iff the
\* required one is Rejected, and never NotEngaged on a malformed payload.
C20_OptionalAsRequired ==
    \A b \in {<<"axum::OptionalFromRequest", "axum::FromRequest">>,
              <<"warp::read_signals_optional", "warp::read_signals">>} :
        (Ran(b[1]) /\ Ran(b[2]) /\ Engaged(Unwrap(req))) =>
            OptionalAsRequired(Unwrap(res[b[1]]), Unwrap(res[b[2]]))

-----------------------------------------------------------------------------
(* The transport adapters (axum.rs, warp.rs, rocket.rs)                    *)

\* the adapter of transport t has been called on the event
Adapted(t) == pc \in {"converted", "encoded"} /\ IsSome(event) /\ IsSome(sse[t])

\* C21 as stated: for every well-formed event, an empty data list
\* included, the Display encoder and the axum, warp and rocket adapters
\* return a value: none panics, and no buffer size goes below zero.
C21_EncodingNeverFails ==
    /\ pc = "encoded" => IsSome(out)
    /\ \A t \in Transports :
          (Adapted(t) /\ WellFormed(Unwrap(event))) =>
              /\ ~Unwrap(sse[t]).panicked
              /\ Unwrap(sse[t]).val.capacity >= 0

\* C22 as stated: each adapter sets the event name always, the id iff the
\* event's id is set, and the retry iff the Display encoder writes a
\* "retry:" line.
C22_AdaptersPassThrough ==
    \A t \in Transports :
        (Encoded /\ Adapted(t) /\ WellFormed(Unwrap(event))
                 /\ ~Unwrap(sse[t]).panicked) =>
            LET e  == Unwrap(event)
                ev == Unwrap(sse[t]).val
                ls == SplitLF(Unwrap(out))
            IN  /\ ev.event = Some(StripPrefix(ls[1], P_event \o <<" ">>))
                /\ IsSome(ev.id) <=> IsSome(e.id)
                /\ IsSome(ev.id) <=> LinesWith(ls, P_id) # <<>>
                /\ IsSome(ev.retry) <=> HasRetryLine

\* C23 as stated: for data lines without a line terminator, the data
\* block of each adapter split at "\n" is the data list again, for the
\* empty list and for lists with empty strings too.
C23_DataBlockResplits ==
    \A t \in Transports :
        (Adapted(t) /\ \A k \in 1..Len(Unwrap(event).data) :
                           ~HasTerminator(Unwrap(event).data[k])) =>
            /\ ~Unwrap(sse[t]).panicked
            /\ SplitLF(Unwrap(sse[t]).val.data) = Unwrap(event).data

\* C28: the "retry:" line is written exactly when the retry cut to whole
\* milliseconds is not 1000, and carries that whole number; a retry of
\* 1000.5 ms gives no "retry:" line and no retry on the axum and warp
\* events.
C28_RetryTruncated ==
    LET e  == Unwrap(event)
        ms == e.retry.secs * 1000 + e.retry.nanos \div 1000000
    IN  /\ (Encoded /\ WellFormed(e)) =>
              LET ls  == SplitLF(Unwrap(out))
                  idx == LinesWith(ls, P_retry)
              IN  /\ ms = 1000 => idx = <<>>
                  /\ ms # 1000 => /\ Len(idx) = 1
                                  /\ ls[idx[1]] = P_retry \o <<" ">> \o ToDecimal(ms)
                  /\ e.retry = [secs |-> 1, nanos |-> 500000] => idx = <<>>
                  /\ e.retry = [secs |-> 0, nanos |-> 500000]
                        => ls[idx[1]] = <<"r", "e", "t", "r", "y", ":", " ", "0">>
                  /\ e.retry = [secs |-> 1, nanos |-> 1000000]
                        => ls[idx[1]] = <<"r", "e", "t", "r", "y", ":", " ", "1", "0", "0", "1">>
        /\ \A t \in {"axum", "warp"} :
              Adapted(t) =>
                  /\ ~Unwrap(sse[t]).panicked
                  /\ ms = 1000 => Unwrap(sse[t]).val.retry = None
                  /\ ms # 1000 => Unwrap(sse[t]).val.retry = Some(e.retry)

\* an event with a retry of 1000.5 ms has been encoded without a "retry:"
\* line and turned into an axum and a warp event without a retry
C28_Witness ==
    /\ Encoded /\ Adapted("axum") /\ Adapted("warp")
    /\ WellFormed(Unwrap(event))
    /\ Unwrap(event).retry = [secs |-> 1, nanos |-> 500000]
    /\ ~HasRetryLine
    /\ Unwrap(sse["axum"]).val.retry = None
    /\ Unwrap(sse["warp"]).val.retry = None

-----------------------------------------------------------------------------
(* PatchElements in mode Remove (patch_elements.rs)                        *)

\* C24 as stated: a descriptor whose mode is Remove has no markup, and its
\* converted event has the line "mode remove" and no "elements" line.
C24_RemoveHasNoElements ==
    (Converted("PatchElements") /\ Unwrap(desc).mode = "Remove") =>
        /\ Unwrap(desc).elements = None
        /\ \E k \in 1..Len(Unwrap(event).data) :
              Unwrap(event).data[k] = <<"m", "o", "d", "e", " ", "r", "e", "m", "o", "v", "e">>
        /\ LinesWith(Unwrap(event).data, P_elements) = <<>>

-----------------------------------------------------------------------------
(* The two bindings on one request (axum.rs, warp.rs)                      *)

\* C25 as stated: on every request the axum extractor and the warp filter
\* end in the same outcome, both Extracted with the same value or both
\* Rejected with a client error; a request that is no GET and whose body
\* is valid JSON for the target type is Extracted by both, whatever its
\* headers.
C25_SameDecision ==
    (Ran("axum::FromRequest") /\ Ran("warp::read_signals")) =>
        LET r == Unwrap(req)
            a == Unwrap(res["axum::FromRequest"])
            w == Unwrap(res["warp::read_signals"])
        IN  /\ \/ a.ok /\ w.ok /\ a.val = w.val
               \/ /\ IsRejected(a) /\ a.val.status \in 400..499
                  /\ IsRejected(w) /\ w.val.status \in 400..499
            /\ (r.method # "GET" /\ r.body = B_delay2) =>
                  a = Ok([delay |-> 2]) /\ w = Ok([delay |-> 2])

-----------------------------------------------------------------------------
(* The handlers of the test suites (examples/*-test-suite.rs)              *)

\* what the handler of a stream makes of one event of the test case
TestEncoding(handler, test_event) ==
    IF handler = "axum"
    THEN write_as_axum_sse_event(test_datastar_event(test_event)).val
    ELSE write_as_warp_sse_event(test_datastar_event(test_event)).val

\* the SSE events that left the loop so far: the written ones, then the one
\* yielded and not yet written
Produced(s) ==
    s.written \o (IF IsSome(s.yielded) THEN <<Unwrap(s.yielded).val>> ELSE <<>>)

\* C26: at every moment of a stream of a test-suite handler the SSE events
\* that left the loop are the encodings of the first events of the test
\* case, one per event and in their order, at most one of them is yielded
\* and not yet written, and when the stream has ended exactly n events are
\* written for the n events of the test case, the k-th the encoding of the
\* k-th.
C26_OneEventEachInOrder ==
    IsSome(stream) =>
        LET s == Unwrap(stream)
        IN  /\ Len(Produced(s)) = s.next - 1
            /\ s.next - 1 <= Len(s.events)
            /\ \A k \in 1..Len(Produced(s)) :
                   Produced(s)[k] = TestEncoding(s.handler, s.events[k])
            /\ pc = "done" =>
                   /\ Len(s.written) = Len(s.events)
                   /\ \A k \in 1..Len(s.events) :
                          s.written[k] = TestEncoding(s.handler, s.events[k])

\* a stream has ended after three different events were written, a script
\* first and a removal of nothing last
C26_Witness ==
    /\ pc = "done"
    /\ IsSome(stream)
    /\ Unwrap(stream).events = <<TE_script, TE_append, TE_empty>>
    /\ Len(Unwrap(stream).written) = MaxEvents
    /\ Unwrap(stream).written[1] # Unwrap(stream).written[2]
    /\ Unwrap(stream).written[2] # Unwrap(stream).written[MaxEvents]
    /\ Unwrap(stream).written[MaxEvents].data = <<>>

-----------------------------------------------------------------------------
(* Conversion by reference and by value (patch_elements.rs,                *)
(* patch_signals.rs, execute_script.rs)                                    *)

\* into_datastar_event of the builder type of d
IntoDatastarEvent(d) ==
    CASE d.type = "PatchElements" -> PatchElements_into_datastar_event(d)
      [] d.type = "PatchSignals"  -> PatchSignals_into_datastar_event(d)
      [] d.type = "ExecuteScript" -> ExecuteScript_into_datastar_event(d)

\* C27: whenever as_datastar_event has been called on a descriptor d, once
\* or again, of any of the three builder types, the event it returned is
\* the event d.clone().into_datastar_event() gives (same kind, id, retry
\* and data), and d is what it was before the first call, its id included.
C27_AsIsCloneInto ==
    (pc \in {"converted", "reconverted"} /\ IsSome(builder)) =>
        /\ event = Some(IntoDatastarEvent(Clone_clone(Unwrap(builder))))
        /\ builder = desc

\* as_datastar_event was called again on a PatchElements that has an id,
\* and the event carries that id and some data
C27_WitnessPE ==
    /\ pc = "reconverted"
    /\ IsSome(builder)
    /\ Unwrap(builder).type = "PatchElements"
    /\ IsSome(Unwrap(builder).id)
    /\ Unwrap(event).id = Unwrap(builder).id
    /\ Unwrap(event).data # <<>>

-----------------------------------------------------------------------------
(* The number of data lines of an ExecuteScript (execute_script.rs)        *)

\* a script without the line feed at its end
WithoutTrailingLF(script) ==
    IF script # <<>> /\ script[Len(script)] = LF
    THEN SubSeq(script, 1, Len(script) - 1)
    ELSE script

\* C29: the conversion of an ExecuteScript always gives an event of at
\* least three data lines (so the last line the closing tag is pushed onto
\* exists and nothing panics); the empty script gives exactly three, the
\* third being the one "elements" line, the opening tag directly followed
\* by "</script>"; a script of n >= 1 lines gives 2 + n data lines; and a
\* script ending in a line feed gives as many data lines as the same
\* script without that line feed whenever that one does not itself end in
\* one.
C29_DataLineCount ==
    Converted("ExecuteScript") =>
        LET e    == Unwrap(event)
            d    == Unwrap(desc)
            n    == LineCount(d.script)
            bare == WithoutTrailingLF(d.script)
        IN  /\ Len(e.data) >= 3
            /\ n = 0 =>
                  /\ d.script = <<>>
                  /\ Len(e.data) = 3
                  /\ LinesWith(e.data, P_elements) = <<3>>
                  /\ StartsWith(e.data[3], P_elements \o T_script)
                  /\ e.data[3] = ExecuteScript_open_tag(d) \o T_endScript
            /\ n >= 1 => Len(e.data) = 2 + n
            /\ (bare # d.script /\ WithoutTrailingLF(bare) = bare) =>
                  Len(e.data) =
                      Len(ExecuteScript_as_datastar_event([d EXCEPT !.script = bare]).data)

\* the script "a\n" has been converted to the three data lines of "a"
C29_Witness ==
    /\ Converted("ExecuteScript")
    /\ Unwrap(desc).script = <<"a", LF>>
    /\ Len(Unwrap(event).data) = 3
    /\ EndsWith(Unwrap(event).data[3], <<">", "a">> \o T_endScript)

-----------------------------------------------------------------------------
(* Live reload (examples/axum-live-reload.rs)                              *)

\* the connections that have written an event
Emitters == {c \in Connections : hot.conn[c].written # <<>>}

\* C30: among the /hotreload connections of one process, in any
\* interleaving, at most one has written an event; it is the first that
\* swapped ONCE, what it wrote is the one event of the script
\* window.location.reload(), every other connection that swapped wrote
\* nothing, and no stream has ended.
C30_OneReload ==
    /\ Cardinality(Emitters) <= 1
    /\ \A c \in Emitters :
           /\ hot.order # <<>>
           /\ hot.order[1] = c
           /\ hot.conn[c].written = <<hotreload_sse_event>>
           /\ EndsWith(hot.conn[c].written[1].data,
                       <<LF>> \o P_elements \o T_script \o T_dataEffect \o <<">">>
                           \o ReloadScript \o T_endScript)
    /\ \A c \in Connections : hot.conn[c].at # "ended"
    /\ hot.order # <<>> => hot.ONCE

\* every connection has swapped and been polled while waiting, the second
\* connection was the first to swap and the only one that wrote
C30_Witness ==
    /\ Len(hot.order) = MaxConnections
    /\ hot.order[1] = 2
    /\ Emitters = {2}
    /\ \A c \in Connections :
           hot.conn[c].at = "pending" /\ hot.conn[c].polls = MaxPolls

====
